---- MODULE Spec2Model ----
(***************************************************************************)
(* Photo-Video-Tagger: the per-item processing and state-management        *)
(* pipeline of the top-level App component (src/App.tsx) with the session  *)
(* service it calls (src/services/sessionService.ts).                      *)
(*                                                                         *)
(* The registry (imageFiles) is a sequence of item records.  A history     *)
(* snapshot is a function from a subset of the editable field names to     *)
(* values, because recordEdit builds a snapshot as {...latest, ...updates} *)
(* and the first snapshot of a never-processed item holds only the keys of *)
(* the update.  historyIndex is 0-based as in the source.                  *)
(*                                                                         *)
(* Texts that the code takes apart (description, keywords) are sequences   *)
(* of tokens; texts it only stores or compares are strings.                *)
(***************************************************************************)
EXTENDS Integers, Sequences, FiniteSets, TLC

\* ------------------------------------------------------------------ bounds
MaxFiles == 1       \* files uploaded in a session of Spec and SpecSession
MaxBatches == 2     \* processImages invocations in a session of Spec
MaxHistory == 3     \* recordEdit is not offered beyond this history length
MaxInFlight == 1    \* regeneration calls in flight at a time in a session of Spec
MaxTokens == 2      \* no regeneration or analysis is requested beyond this usage
MaxText == 8        \* an editorial input is not changed beyond this description length
BatchFiles == 3     \* files uploaded in a session of SpecBatch
BatchRuns == 2      \* processImages invocations in a session of SpecBatch and SpecSession
MaxRegistry == 2    \* registry length an import may reach
MaxExports == 1     \* session exports
ArchiveFiles == 2   \* files uploaded where archives are exported and imported
MaxClock == 3       \* half days the clock advances
LifecycleRuns == 3  \* batches started for one file: its upload and two retries
MaxMounts == 2      \* times the page is opened
SessionInFlight == 2 \* regeneration and analysis calls in flight in a session of SpecSession

\* ------------------------------------------------------------ value domains
IDLE == "idle"
PROCESSING == "processing"
SUCCESS == "success"
ERROR == "error"

EditableFields ==
    {"editedTitle", "editedDescription", "editedKeywords", "editedCategory",
     "editedAltText", "editedIsEditorial", "editedEditorialCity",
     "editedEditorialRegion", "editedEditorialDate", "editedEditorialFact"}

BusyFlags ==
    {"isGeneratingTitle", "isGeneratingDescription", "isGeneratingAltText",
     "isGeneratingKeywords", "isAnalyzing"}

RegenFields == {"title", "description", "altText", "keywords"}

\* {...a, ...b}
Merge(a, b) ==
    [k \in (DOMAIN a) \cup (DOMAIN b) |-> IF k \in DOMAIN b THEN b[k] ELSE a[k]]

\* the object {} : no keys
EmptyObject == [k \in {} |-> TRUE]

\* String.prototype.toLowerCase on the keywords and words of the model
Lower(k) ==
    CASE k = "Editorial" -> "editorial"
      [] k = "Dog" -> "dog"
      [] k = "Quota" -> "quota"
      [] k = "SAFETY" -> "safety"
      [] k = "Failed" -> "failed"
      [] k = "Too" -> "too"
      [] k = "Many" -> "many"
      [] k = "Requests" -> "requests"
      [] k = "Blocked" -> "blocked"
      [] k = "Unexpected" -> "unexpected"
      [] OTHER -> k

\* String.prototype.toUpperCase on the place names of the model
Upper(s) ==
    CASE s = "rome" -> "ROME"
      [] s = "italy" -> "ITALY"
      [] OTHER -> s

RECURSIVE SeqToSet(_)
SeqToSet(s) == IF s = <<>> THEN {} ELSE {Head(s)} \cup SeqToSet(Tail(s))

\* Array.prototype.some(k => k.toLowerCase() === 'editorial')
HasEditorial(kws) == \E i \in 1..Len(kws) : Lower(kws[i]) = "editorial"

\* ['editorial', ...kws] unless some keyword already is 'editorial'
EnforceEditorial(kws) == IF HasEditorial(kws) THEN kws ELSE <<"editorial">> \o kws

\* getFriendlyErrorMessage on an Error of the given message (the messages of
\* the source are Russian sentences, named here in English)
getFriendlyErrorMessage(kind) ==
    CASE kind = "RAW_NOT_SUPPORTED" -> "raw formats not supported message"
      [] kind = "FORMAT_NOT_SUPPORTED" -> "file not supported message"
      [] kind = "VIDEO_LOAD_ERROR" -> "video read error message"
      [] kind = "VIDEO_TIMEOUT" -> "video timeout message"
      [] kind = "QUOTA_EXCEEDED" -> "quota exceeded message"
      [] kind = "RATE_LIMIT_EXCEEDED" -> "too many requests message"
      [] kind = "CONTENT_SAFETY_VIOLATION" -> "content blocked message"
      [] OTHER -> kind

\* ------------------------------------------------- collaborator failures
\* what an attempt of a collaborator call ends with: it returns, or it throws
\* a value of some type ("Error", "object", "string") with a status, a
\* nested error status and a message (the words of it); cause says what
\* went wrong, which no code reads
Returned ==
    [cause |-> "none", type |-> "none", status |-> 200, inner |-> "", message |-> <<>>]

Thrown(cause, type, status, inner, message) ==
    [cause |-> cause, type |-> type, status |-> status, inner |-> inner,
     message |-> message]

RawErrors ==
    { Thrown("quota", "Error", 429, "", <<"RESOURCE_EXHAUSTED">>),
      Thrown("quota", "object", 0, "RESOURCE_EXHAUSTED", <<>>),
      Thrown("quota", "Error", 0, "", <<"Quota", " ", "exceeded">>),
      Thrown("quota", "string", 0, "", <<"429">>),
      Thrown("rate-limit", "Error", 429, "", <<"Too", " ", "Many", " ", "Requests">>),
      Thrown("rate-limit", "Error", 0, "", <<"RATE_LIMIT_EXCEEDED">>),
      Thrown("network", "Error", 0, "", <<"Failed", " ", "to", " ", "fetch">>),
      Thrown("network", "Error", 0, "", <<"NETWORK_ERROR">>),
      Thrown("credentials", "Error", 0, "", <<"API_KEY_MISSING">>),
      Thrown("raw-format", "Error", 0, "", <<"RAW_NOT_SUPPORTED">>),
      Thrown("browser-format", "Error", 0, "", <<"FORMAT_NOT_SUPPORTED_BY_BROWSER">>),
      Thrown("video-decode", "Error", 0, "", <<"VIDEO_LOAD_ERROR">>),
      Thrown("video-timeout", "Error", 0, "", <<"VIDEO_TIMEOUT">>),
      Thrown("safety", "Error", 0, "", <<"Blocked", " ", "for", " ", "SAFETY">>),
      Thrown("unknown", "Error", 0, "", <<"Unexpected", " ", "token">>),
      Thrown("unknown", "object", 0, "", <<>>) }

\* the string of a message
RECURSIVE Text(_)
Text(words) == IF words = <<>> THEN "" ELSE Head(words) \o Text(Tail(words))

\* String.prototype.includes(part), part being a word
Includes(words, part) == \E i \in 1..Len(words) : words[i] = part

\* message.toLowerCase()
LowerText(words) == [i \in 1..Len(words) |-> Lower(words[i])]

\* isQuotaError of handleGeminiError
IsQuotaError(error) ==
    IF error.status = 429 THEN TRUE
    ELSE IF error.inner = "RESOURCE_EXHAUSTED" THEN TRUE
    ELSE IF error.type = "string"
    THEN Includes(error.message, "429") \/ Includes(error.message, "RESOURCE_EXHAUSTED")
    ELSE IF error.message # <<>>
    THEN \/ Includes(LowerText(error.message), "429")
         \/ Includes(LowerText(error.message), "quota")
         \/ Includes(LowerText(error.message), "exhausted")
    ELSE FALSE

\* handleGeminiError(error): the message of the Error it throws
handleGeminiError(error) ==
    IF IsQuotaError(error) THEN "QUOTA_EXCEEDED"
    ELSE IF error.type = "Error"
    THEN LET msg == Text(error.message)
         IN  CASE msg = "RAW_NOT_SUPPORTED" -> "RAW_NOT_SUPPORTED"
               [] msg = "FORMAT_NOT_SUPPORTED_BY_BROWSER" -> "FORMAT_NOT_SUPPORTED"
               [] msg = "VIDEO_LOAD_ERROR" -> "VIDEO_LOAD_ERROR"
               [] msg = "VIDEO_TIMEOUT" -> "VIDEO_TIMEOUT"
               [] OTHER -> IF Includes(LowerText(error.message), "safety")
                           THEN "CONTENT_SAFETY_VIOLATION"
                           ELSE msg
    ELSE "UNKNOWN_ERROR"

MAX_RETRIES == 2

\* what a call ends with after its attempt number `attempt` and the ones
\* before it
Outcome(ok, message, attempt, waits) ==
    [ok |-> ok, message |-> message, attempts |-> attempt, waits |-> waits]

\* a retry loop that also tries again after QUOTA_EXCEEDED
RECURSIVE RetryAlsoQuota(_, _, _)
RetryAlsoQuota(outcomes, attempt, waits) ==
    IF attempt > MAX_RETRIES THEN Outcome(FALSE, "API_RETRY_FAILED", attempt - 1, waits)
    ELSE IF outcomes[attempt] = Returned THEN Outcome(TRUE, "", attempt, waits)
    ELSE LET standardized == handleGeminiError(outcomes[attempt])
         IN  IF /\ standardized \in {"QUOTA_EXCEEDED", "RATE_LIMIT_EXCEEDED", "NETWORK_ERROR"}
                /\ attempt < MAX_RETRIES
             THEN RetryAlsoQuota(outcomes, attempt + 1, Append(waits, 1500 * attempt))
             ELSE Outcome(FALSE, standardized, attempt, waits)

\* the loop of withApiRetry from attempt number `attempt` on, outcomes[k]
\* being what attempt k ends with and waits the pauses made so far
RECURSIVE RetryFrom(_, _, _)
RetryFrom(outcomes, attempt, waits) ==
    IF attempt > MAX_RETRIES THEN Outcome(FALSE, "API_RETRY_FAILED", attempt - 1, waits)
    ELSE IF outcomes[attempt] = Returned THEN Outcome(TRUE, "", attempt, waits)
    ELSE LET standardized == handleGeminiError(outcomes[attempt])
         IN  IF standardized = "QUOTA_EXCEEDED"
             THEN Outcome(FALSE, standardized, attempt, waits)
             ELSE IF /\ standardized \in {"RATE_LIMIT_EXCEEDED", "NETWORK_ERROR"}
                     /\ attempt < MAX_RETRIES
             THEN RetryFrom(outcomes, attempt + 1, Append(waits, 1500 * attempt))
             ELSE Outcome(FALSE, standardized, attempt, waits)

\* withApiRetry(apiCall)
withApiRetry(outcomes) == RetryFrom(outcomes, 1, <<>>)

\* ------------------------------------------------------------------- state
VARIABLES
    imageFiles,          \* the registry: useState<ImageFile[]>
    isProcessing,        \* useState<boolean>
    abortProcessingRef,  \* useRef<boolean>: the cooperative cancellation flag
    totalTokensUsed,     \* useState<number>
    batches,             \* the processImages invocations, in start order
    requests,            \* field-regeneration and analysis calls in flight
    archive,             \* the session archive file the user holds
    nextId,              \* source of fresh item ids
    lastOp,              \* what the last step was and the toast it raised
    isInitialLoad,       \* useState<boolean>
    mounted,             \* whether the App component is mounted
    timers,              \* the pending auto-save timeouts, oldest first: the
                         \* registry each callback closed over
    autoSaveTimerRef,    \* whether the timeout autoSaveTimerRef names is pending
    store,               \* the records of the IndexedDB object store, in key order
    thumbnailJobs,       \* ids whose generateThumbnail promise is pending
    mounts,              \* how many times the page was opened
    tokenUsage,          \* the localStorage item 'tokenUsage': the stored usage, if any
    clock                \* the time of day, in half days

vars ==
    <<imageFiles, isProcessing, abortProcessingRef, totalTokensUsed, batches,
      requests, archive, nextId, lastOp, isInitialLoad, mounted, timers,
      autoSaveTimerRef, store, thumbnailJobs, mounts, tokenUsage, clock>>

\* what no handler but handleClear and the effects writes
hostVars == <<isInitialLoad, mounted, store, thumbnailJobs, mounts>>

\* clearTimeout(autoSaveTimerRef.current): the timeout the ref names, the
\* newest one, is dropped if it is still pending
ClearAutoSaveTimer(ts, ref) ==
    IF ref /\ ts # <<>> THEN SubSeq(ts, 1, Len(ts) - 1) ELSE ts

\* an auto-save effect that sets its timeout without clearing the one
\* before
AutoSaveEffectStacked(ts, ref, reg, initial) ==
    IF initial
    THEN [timers |-> ts, ref |-> ref]
    ELSE [timers |-> Append(ts, reg), ref |-> TRUE]

\* the auto-save effect after a render with registry reg: its cleanup and
\* its body; the pending timeouts and the ref it leaves
AutoSaveEffect(ts, ref, reg, initial) ==
    IF initial
    THEN [timers |-> ts, ref |-> ref]
    ELSE [timers |-> Append(ClearAutoSaveTimer(ts, ref), reg), ref |-> TRUE]

\* a step that called setImageFiles: the auto-save effect runs for the new
\* registry
RegistrySet ==
    /\ timers' = AutoSaveEffect(timers, autoSaveTimerRef, imageFiles', isInitialLoad).timers
    /\ autoSaveTimerRef' =
          AutoSaveEffect(timers, autoSaveTimerRef, imageFiles', isInitialLoad).ref

\* a step that did not call setImageFiles
RegistryKept == UNCHANGED <<timers, autoSaveTimerRef>>

\* a File the user selected, named n (a text is the sequence of its pieces:
\* a double quote is a piece of its own)
FileNamed(n) == [name |-> n, content |-> "original"]

\* the File of an uploaded item, and the dummy File importSessionFromZip
\* creates under the exported name
OriginalFile == FileNamed(<<"a.jpg">>)
DummyFile == [name |-> <<"a.jpg">>, content |-> "(restored-content)"]

\* URL.createObjectURL(file)
ObjectUrl == "blob:file"

\* canvas.toDataURL('image/jpeg', 0.6) for the file of item id, as the parts
\* split(',') gives; the empty string of a failed load has no parts
ThumbnailOf(id) == <<"data:image/jpeg;base64", id>>

\* the item handleFilesSelected creates for an uploaded file
NewImageFile(id) ==
    [id |-> id, state |-> IDLE, error |-> "", isRestored |-> FALSE,
     file |-> OriginalFile, previewUrl |-> ObjectUrl, thumbnailData |-> <<>>,
     editedTitle |-> "", editedDescription |-> <<>>, editedKeywords |-> <<>>,
     editedAltText |-> "", editedCategory |-> "",
     history |-> <<>>, historyIndex |-> -1,
     editedIsEditorial |-> FALSE, editedEditorialCity |-> "",
     editedEditorialRegion |-> "", editedEditorialDate |-> "",
     editedEditorialFact |-> "",
     isGeneratingTitle |-> FALSE, isGeneratingDescription |-> FALSE,
     isGeneratingAltText |-> FALSE, isGeneratingKeywords |-> FALSE,
     isAnalyzing |-> FALSE, analysis |-> FALSE]

\* current.map that adds an item when none has the id
MapOrCreateById(reg, id, repl) ==
    IF \E p \in 1..Len(reg) : reg[p].id = id
    THEN [p \in 1..Len(reg) |-> IF reg[p].id = id THEN repl[p] ELSE reg[p]]
    ELSE Append(reg, NewImageFile(id))

\* current.map(f => f.id === id ? g(f) : f), with g given as a sequence of
\* replacement items indexed like the registry
MapById(reg, id, repl) ==
    [p \in 1..Len(reg) |-> IF reg[p].id = id THEN repl[p] ELSE reg[p]]

\* imageFiles.find(item => item.id === id): the first match, 0 when none
RECURSIVE FindFrom(_, _, _)
FindFrom(reg, id, p) ==
    IF p > Len(reg) THEN 0
    ELSE IF reg[p].id = id THEN p
    ELSE FindFrom(reg, id, p + 1)

Find(reg, id) == FindFrom(reg, id, 1)

\* what a step left behind for an observer: the handler, the card (registry
\* position) it was triggered on, the toast it raised, an item it saved
Op(name, pos, toast) == [op |-> name, pos |-> pos, toast |-> toast, saved |-> <<>>]

\* a step no observer asks about
Quiet == Op("", 0, "")

\* a request made from the card at position pos: the card's item as it was
\* is kept
RequestOp(name, reg, pos, toast) == [Op(name, pos, toast) EXCEPT !.saved = <<reg[pos]>>]

\* a step that recorded an edit for the item at position pos: the item as
\* it was is kept when its cursor was not at the end of its history
EditOp(name, reg, pos) ==
    [Op(name, pos, "") EXCEPT
       !.saved = IF pos \in 1..Len(reg) /\ reg[pos].historyIndex < Len(reg[pos].history) - 1
                 THEN <<reg[pos]>>
                 ELSE <<>>]

\* ---------------------------------------------------------- token ledger
\* new Date().toISOString().split('T')[0] at time t: the date, as the number
\* of the day
IsoDate(t) == t \div 2

\* no item 'tokenUsage' in localStorage
NoUsage == <<>>

\* a read that returns the stored number whatever its date
GetStoredTokenUsage(stored, t) ==
    IF stored # NoUsage
    THEN [tokens |-> stored[1].tokens, stored |-> stored]
    ELSE [tokens |-> 0, stored |-> NoUsage]

\* getTodaysTokenUsage() at time t with the stored item: the number it
\* returns and the item it leaves (removed unless it is of today)
GetTodaysTokenUsage(stored, t) ==
    IF stored # NoUsage /\ stored[1].date = IsoDate(t)
    THEN [tokens |-> stored[1].tokens, stored |-> stored]
    ELSE [tokens |-> 0, stored |-> NoUsage]

\* the item saveTodaysTokenUsage(tokens) stores at time t
SaveTodaysTokenUsage(t, tokens) == <<[date |-> IsoDate(t), tokens |-> tokens]>>

\* addTokenUsage(tokens)
AddTokenUsage(tokens) ==
    /\ totalTokensUsed' = totalTokensUsed + tokens
    /\ tokenUsage' = SaveTodaysTokenUsage(clock, totalTokensUsed + tokens)
    /\ UNCHANGED clock

\* ------------------------------------------------- edit history tracker
\* f.history[f.historyIndex] || {}
LatestState(f) ==
    IF f.historyIndex >= 0 /\ f.historyIndex < Len(f.history)
    THEN f.history[f.historyIndex + 1]
    ELSE EmptyObject

\* Array.prototype.slice(0, end) for end >= 0
Slice0(s, end) == SubSeq(s, 1, IF end > Len(s) THEN Len(s) ELSE end)

\* recordEdit with the cursor taken from the length of the history it
\* replaces
RecordEditStaleCursor(f, updates) ==
    LET newState == Merge(LatestState(f), updates)
        newHistory == Append(Slice0(f.history, f.historyIndex + 1), newState)
    IN  Merge(Merge(f, updates),
              [history |-> newHistory, historyIndex |-> Len(f.history)])

\* recordEdit appending to the whole history
RecordEditKeepsBranch(f, updates) ==
    LET newState == Merge(LatestState(f), updates)
        newHistory == Append(f.history, newState)
    IN  Merge(Merge(f, updates),
              [history |-> newHistory, historyIndex |-> Len(newHistory) - 1])

\* the item recordEdit returns for the item it matches
RecordEditItem(f, updates) ==
    LET newState == Merge(LatestState(f), updates)
        newHistory == Append(Slice0(f.history, f.historyIndex + 1), newState)
    IN  Merge(Merge(f, updates),
              [history |-> newHistory, historyIndex |-> Len(newHistory) - 1])

\* recordEdit(fileId, updates) as a function of the registry
recordEdit(reg, fileId, updates) ==
    MapById(reg, fileId, [p \in 1..Len(reg) |-> RecordEditItem(reg[p], updates)])

\* the item handleUndo returns for an item of the given id
UndoItem(f) ==
    IF f.historyIndex > 0
    THEN Merge(Merge(f, f.history[(f.historyIndex - 1) + 1]),
               [historyIndex |-> f.historyIndex - 1])
    ELSE f

\* handleRedo moving the cursor only
RedoCursorOnly(f) ==
    IF f.historyIndex < Len(f.history) - 1
    THEN Merge(f, [historyIndex |-> f.historyIndex + 1])
    ELSE f

\* the item handleRedo returns for an item of the given id
RedoItem(f) ==
    IF f.historyIndex < Len(f.history) - 1
    THEN Merge(Merge(f, f.history[(f.historyIndex + 1) + 1]),
               [historyIndex |-> f.historyIndex + 1])
    ELSE f

handleUndo(reg, fileId) ==
    MapById(reg, fileId, [p \in 1..Len(reg) |-> UndoItem(reg[p])])

handleRedo(reg, fileId) ==
    MapById(reg, fileId, [p \in 1..Len(reg) |-> RedoItem(reg[p])])


\* ------------------------------------------------------- batch processor
\* what generateMediaMetadata may resolve to (metadata of the collaborator)
MetadataResults ==
    { [title |-> "A", description |-> <<"d">>, keywords |-> <<"cat">>,
       category |-> "Nature", isEditorial |-> FALSE, editorialCity |-> "",
       editorialRegion |-> "", editorialDate |-> "", editorialFact |-> ""],
      [title |-> "B", description |-> <<"d">>, keywords |-> <<"Dog">>,
       category |-> "", isEditorial |-> TRUE, editorialCity |-> "rome",
       editorialRegion |-> "", editorialDate |-> "", editorialFact |-> ""],
      [title |-> "", description |-> <<>>, keywords |-> <<>>,
       category |-> "", isEditorial |-> FALSE, editorialCity |-> "",
       editorialRegion |-> "", editorialDate |-> "", editorialFact |-> ""] }

\* the error kinds a collaborator call may reject with
ErrorKinds == {"QUOTA_EXCEEDED"}

\* tokensUsed of one collaborator call
TokensPerCall == 1

\* a rolling context that starts empty
SeedNoTitles(reg) == <<>>

\* processedTitles after the forEach over the registry: the title of every
\* successful item whose title is not empty, in registry order
RECURSIVE SeedTitles(_)
SeedTitles(reg) ==
    IF reg = <<>> THEN <<>>
    ELSE LET f == Head(reg)
         IN  (IF f.state = SUCCESS /\ f.editedTitle # "" THEN <<f.editedTitle>> ELSE <<>>)
             \o SeedTitles(Tail(reg))

\* processedKeywords after the forEach over the registry
SeedKeywords(reg) ==
    UNION { {Lower(k) : k \in SeqToSet(reg[p].editedKeywords)} :
            p \in {q \in 1..Len(reg) : reg[q].state = SUCCESS /\ reg[q].editedKeywords # <<>>} }

\* the MetadataHistoryState processImages builds from the metadata
StateOfMetadata(m) ==
    [editedTitle |-> m.title,
     editedDescription |-> m.description,
     editedKeywords |-> IF m.isEditorial THEN EnforceEditorial(m.keywords) ELSE m.keywords,
     editedCategory |-> m.category,
     editedAltText |-> "",
     editedIsEditorial |-> m.isEditorial,
     editedEditorialCity |-> m.editorialCity,
     editedEditorialRegion |-> m.editorialRegion,
     editedEditorialDate |-> m.editorialDate,
     editedEditorialFact |-> m.editorialFact]

\* the item written on success
SuccessItem(f, m) ==
    Merge(Merge(Merge(f, [state |-> SUCCESS]), StateOfMetadata(m)),
          [history |-> <<StateOfMetadata(m)>>, historyIndex |-> 0])

\* the item written on failure
ErrorItem(f, msg) == Merge(f, [state |-> ERROR, error |-> msg])

\* the first statements of processImages(files), up to the first await:
\* the rolling context is seeded from the registry the callback closed over
NewBatch(reg, files) ==
    [files |-> [k \in 1..Len(files) |->
                  [id |-> files[k].id, state |-> files[k].state,
                   isRestored |-> files[k].isRestored, file |-> files[k].file]],
     i |-> 1,
     pc |-> "sleep",
     processedTitles |-> SeedTitles(reg),
     processedKeywords |-> SeedKeywords(reg),
     \* observation only, never read by an action
     registryAtStart |-> [p \in 1..Len(reg) |->
                            [state |-> reg[p].state, editedTitle |-> reg[p].editedTitle]],
     outcome |-> [k \in 1..Len(files) |-> "none"],
     generated |-> [k \in 1..Len(files) |-> ""],
     calls |-> <<>>,
     clearedAt |-> 0,
     clearedIdle |-> FALSE]

\* a loop header that steps over the item after b.i
AdvanceByTwo(b) ==
    IF b.i + 1 < Len(b.files)
    THEN [b EXCEPT !.i = b.i + 2, !.pc = "sleep"]
    ELSE [b EXCEPT !.pc = "done"]

\* the loop header after item b.i is finished: the next iteration's await,
\* or the end of the loop
Advance(b) ==
    IF b.i < Len(b.files)
    THEN [b EXCEPT !.i = b.i + 1, !.pc = "sleep"]
    ELSE [b EXCEPT !.pc = "done"]

BatchRunning(b) == b.pc # "done"


\* --------------------------------------------------- editorial prefix
\* Date.toLocaleDateString('en-US', {month:'long', day:'numeric',
\* year:'numeric'}).toUpperCase() of date + 'T00:00:00'; '' for no valid date
FormatDate(date) ==
    CASE date = "2024-01-05" -> "JANUARY 5, 2024"
      [] OTHER -> ""

\* [a, b].filter(Boolean).join(sep), on token sequences
JoinNonEmpty(a, sep, b) ==
    IF a = <<>> THEN b
    ELSE IF b = <<>> THEN a
    ELSE a \o sep \o b

Tok(s) == IF s = "" THEN <<>> ELSE <<s>>

createEditorialPrefix(city, region, date) ==
    IF city = "" /\ region = "" /\ date = "" THEN <<>>
    ELSE LET locationPart == JoinNonEmpty(Tok(Upper(city)), <<", ">>, Tok(Upper(region)))
             datePart == Tok(FormatDate(date))
             prefix == JoinNonEmpty(locationPart, <<" - ">>, datePart)
         IN  IF prefix # <<>> THEN prefix \o <<":">> ELSE <<>>

\* String.prototype.startsWith
StartsWith(text, prefix) ==
    /\ Len(prefix) <= Len(text)
    /\ SubSeq(text, 1, Len(prefix)) = prefix

\* String.prototype.substring(n)
Substring(text, n) == SubSeq(text, n + 1, Len(text))

\* String.prototype.trim: the token " " is the white space of the model
RECURSIVE TrimLeft(_)
TrimLeft(text) ==
    IF text # <<>> /\ Head(text) = " " THEN TrimLeft(Tail(text)) ELSE text

RECURSIVE TrimRight(_)
TrimRight(text) ==
    IF text # <<>> /\ text[Len(text)] = " "
    THEN TrimRight(SubSeq(text, 1, Len(text) - 1))
    ELSE text

Trim(text) == TrimRight(TrimLeft(text))

\* the updates handleEditorialChange passes to onEditorialUpdate for the
\* card's item f
EditorialChangeUpdates(f, updates) ==
    LET oldPrefix == createEditorialPrefix(f.editedEditorialCity,
                                           f.editedEditorialRegion,
                                           f.editedEditorialDate)
        new == Merge([editedEditorialCity |-> f.editedEditorialCity,
                      editedEditorialRegion |-> f.editedEditorialRegion,
                      editedEditorialDate |-> f.editedEditorialDate], updates)
        newPrefix == createEditorialPrefix(new.editedEditorialCity,
                                           new.editedEditorialRegion,
                                           new.editedEditorialDate)
        baseDescription ==
            IF Len(oldPrefix) > 0 /\ StartsWith(f.editedDescription, oldPrefix)
            THEN Trim(Substring(f.editedDescription, Len(oldPrefix)))
            ELSE f.editedDescription
        newDescription ==
            IF newPrefix # <<>>
            THEN newPrefix \o (IF baseDescription # <<>> THEN <<" ">> \o baseDescription ELSE <<>>)
            ELSE baseDescription
    IN  Merge(updates, [editedDescription |-> newDescription])

\* keywords.splice(editorialIndex, 1) for the first keyword that is
\* 'editorial' in lower case
RECURSIVE RemoveFirstEditorial(_)
RemoveFirstEditorial(kws) ==
    IF kws = <<>> THEN <<>>
    ELSE IF Lower(Head(kws)) = "editorial" THEN Tail(kws)
    ELSE <<Head(kws)>> \o RemoveFirstEditorial(Tail(kws))

\* the updates handleToggleEditorial passes to onEditorialUpdate for the
\* card's item f
ToggleEditorialUpdates(f, isEditorial) ==
    IF isEditorial
    THEN [editedIsEditorial |-> TRUE, editedKeywords |-> EnforceEditorial(f.editedKeywords)]
    ELSE LET prefix == createEditorialPrefix(f.editedEditorialCity,
                                             f.editedEditorialRegion,
                                             f.editedEditorialDate)
             baseDescription ==
                 IF prefix # <<>> /\ StartsWith(f.editedDescription, prefix)
                 THEN Trim(Substring(f.editedDescription, Len(prefix)))
                 ELSE f.editedDescription
         IN  [editedIsEditorial |-> FALSE,
              editedKeywords |-> RemoveFirstEditorial(f.editedKeywords),
              editedDescription |-> baseDescription,
              editedEditorialCity |-> "", editedEditorialRegion |-> "",
              editedEditorialDate |-> "", editedEditorialFact |-> ""]


\* ------------------------------------------------------------------ Init
\* an archive nobody has written yet
NoZip ==
    [readable |-> FALSE, hasSession |-> FALSE, isArray |-> FALSE,
     entries |-> <<>>, thumbnails |-> {}]

Init ==
    /\ imageFiles = <<>>
    /\ isProcessing = FALSE
    /\ abortProcessingRef = FALSE
    /\ totalTokensUsed = 0
    /\ batches = <<>>
    /\ requests = {}
    /\ archive = [exports |-> 0, zip |-> NoZip, exported |-> <<>>]
    /\ nextId = 1
    /\ lastOp = Op("init", 0, "")
    /\ isInitialLoad = FALSE
    /\ mounted = TRUE
    /\ timers = <<imageFiles>>
    /\ autoSaveTimerRef = TRUE
    /\ store = <<>>
    /\ thumbnailJobs = {}
    /\ mounts = 1
    /\ tokenUsage = NoUsage
    /\ clock = 0

\* --------------------------------------------------------------- actions
\* handleFilesSelected(selectedFiles) with n files: the new idle items are
\* appended and processImages(newFiles) runs up to its first await
HandleFilesSelected(n) ==
    /\ LET newFiles == [k \in 1..n |-> NewImageFile(nextId + k - 1)]
       IN  /\ imageFiles' = imageFiles \o newFiles
           /\ batches' = Append(batches, NewBatch(imageFiles, newFiles))
    /\ abortProcessingRef' = FALSE
    /\ isProcessing' = TRUE
    /\ nextId' = nextId + n
    /\ lastOp' = Quiet
    /\ UNCHANGED <<totalTokensUsed, tokenUsage, clock, requests, archive>>
    /\ RegistrySet
    /\ thumbnailJobs' = thumbnailJobs \cup {nextId + k - 1 : k \in 1..n}
    /\ UNCHANGED <<isInitialLoad, mounted, mounts, store>>

\* onRetry(id) from the card at registry position p (the Retry button is
\* rendered for an item in state error): processImages([f]) for the first
\* item of that id
OnRetry(p) ==
    /\ p \in 1..Len(imageFiles)
    /\ imageFiles[p].state = ERROR
    /\ LET f == imageFiles[Find(imageFiles, imageFiles[p].id)]
       IN  batches' = Append(batches, NewBatch(imageFiles, <<f>>))
    /\ abortProcessingRef' = FALSE
    /\ isProcessing' = TRUE
    /\ lastOp' = Quiet
    /\ UNCHANGED <<imageFiles, totalTokensUsed, tokenUsage, clock, requests, archive, nextId>>
    /\ RegistryKept
    /\ UNCHANGED hostVars

\* the record of a generation call as it is issued (observation only)
CallRecord(B) ==
    [k |-> B.i, id |-> B.files[B.i].id, file |-> B.files[B.i].file,
     previousTitles |-> B.processedTitles,
     previousKeywords |-> B.processedKeywords,
     clearedAt |-> B.clearedAt]

\* one loop iteration of processImages for batch b, from the end of its
\* 100 ms pause to its next await: the cancellation check, the two skips,
\* or the claim of the item and the start of its generation call
BatchWake(b) ==
    /\ b \in 1..Len(batches)
    /\ batches[b].pc = "sleep"
    /\ LET B == batches[b]
           img == B.files[B.i]
       IN  IF abortProcessingRef
           THEN /\ batches' = [batches EXCEPT ![b] = [B EXCEPT !.pc = "done"]]
                /\ isProcessing' = FALSE
                /\ UNCHANGED imageFiles
                /\ RegistryKept
           ELSE IF img.state = SUCCESS \/ img.isRestored
           THEN /\ batches' = [batches EXCEPT
                                 ![b] = Advance([B EXCEPT !.outcome[B.i] = "skipped"])]
                /\ isProcessing' = IF B.i < Len(B.files) THEN isProcessing ELSE FALSE
                /\ UNCHANGED imageFiles
                /\ RegistryKept
           ELSE /\ imageFiles' =
                      MapById(imageFiles, img.id,
                              [p \in 1..Len(imageFiles) |->
                                 Merge(imageFiles[p], [state |-> PROCESSING])])
                /\ batches' = [batches EXCEPT
                                 ![b] = [B EXCEPT !.pc = "call",
                                                  !.outcome[B.i] = "inflight",
                                                  !.calls = Append(B.calls, CallRecord(B))]]
                /\ UNCHANGED isProcessing
                /\ RegistrySet
    /\ lastOp' = Quiet
    /\ UNCHANGED <<abortProcessingRef, totalTokensUsed, tokenUsage, clock, requests, archive, nextId>>
    /\ UNCHANGED hostVars

\* generateMediaMetadata resolves with metadata m for the item batch b
\* awaits: tokens, rolling context, success write, then the loop goes on
BatchCallReturns(b, m) ==
    /\ b \in 1..Len(batches)
    /\ batches[b].pc = "call"
    /\ LET B == batches[b]
           img == B.files[B.i]
           C == [B EXCEPT
                   !.processedTitles =
                       IF m.title # "" THEN Append(@, m.title) ELSE @,
                   !.processedKeywords = @ \cup {Lower(k) : k \in SeqToSet(m.keywords)},
                   !.outcome[B.i] = "success",
                   !.generated[B.i] = m.title]
       IN  /\ imageFiles' =
                 MapById(imageFiles, img.id,
                         [p \in 1..Len(imageFiles) |-> SuccessItem(imageFiles[p], m)])
           /\ batches' = [batches EXCEPT ![b] = Advance(C)]
           /\ isProcessing' = IF B.i < Len(B.files) THEN isProcessing ELSE FALSE
    /\ AddTokenUsage(TokensPerCall)
    /\ lastOp' = Quiet
    /\ UNCHANGED <<abortProcessingRef, requests, archive, nextId>>
    /\ RegistrySet
    /\ UNCHANGED hostVars

\* a catch block that leaves the loop
StopAtFailure(B) == [B EXCEPT !.outcome[B.i] = "error", !.pc = "done"]

\* what the catch block of processImages does with the loop of batch B
AfterFailure(B) == Advance([B EXCEPT !.outcome[B.i] = "error"])

\* generateMediaMetadata rejects with an error of kind e: the catch block
\* raises a toast and writes the error, then the loop goes on
BatchCallThrows(b, e) ==
    /\ b \in 1..Len(batches)
    /\ batches[b].pc = "call"
    /\ LET B == batches[b]
           img == B.files[B.i]
           msg == getFriendlyErrorMessage(e)
       IN  /\ imageFiles' =
                 MapById(imageFiles, img.id,
                         [p \in 1..Len(imageFiles) |-> ErrorItem(imageFiles[p], msg)])
           /\ batches' = [batches EXCEPT ![b] = AfterFailure(B)]
           /\ isProcessing' = IF AfterFailure(B).pc = "done" THEN FALSE ELSE isProcessing
           /\ lastOp' = Op("batchCallThrows", Find(imageFiles, img.id), msg)
    /\ UNCHANGED <<abortProcessingRef, totalTokensUsed, tokenUsage, clock, requests, archive, nextId>>
    /\ RegistrySet
    /\ UNCHANGED hostVars

\* the first item of batch B not yet claimed
FirstUnclaimed(B) == IF B.pc = "sleep" THEN B.i ELSE B.i + 1

\* handleClear (the Clear All button is rendered for a non-empty registry).
\* It does not touch abortProcessingRef.  The batches that are running are
\* marked with where they stood (observation only).
HandleClear ==
    /\ Len(imageFiles) > 0
    /\ imageFiles' = <<>>
    /\ batches' = [b \in 1..Len(batches) |->
                     IF BatchRunning(batches[b]) /\ batches[b].clearedAt = 0
                     THEN [batches[b] EXCEPT !.clearedAt = FirstUnclaimed(batches[b]),
                                             !.clearedIdle = (batches[b].pc = "sleep")]
                     ELSE batches[b]]
    /\ lastOp' = Op("handleClear", 0, "All items cleared")
    /\ UNCHANGED <<isProcessing, abortProcessingRef, totalTokensUsed, tokenUsage, clock, requests,
                   archive, nextId>>
    /\ RegistrySet
    /\ store' = <<>>
    /\ UNCHANGED <<isInitialLoad, mounted, mounts, thumbnailJobs>>


\* ------------------------------------------------------------ user edits
\* the partial updates the field inputs of a card pass to recordEdit
\* (onTitleChange, onDescriptionChange, onKeywordsChange, onAltTextChange,
\* onCategoryChange)
FieldEdits ==
    { [editedTitle |-> "A"], [editedTitle |-> ""],
      [editedDescription |-> <<"u">>],
      [editedKeywords |-> <<"Editorial", "cat">>],
      [editedAltText |-> "alt"],
      [editedCategory |-> "Nature"] }

\* the partial updates the editorial inputs of a card pass to
\* handleEditorialChange
EditorialEdits ==
    { [editedEditorialCity |-> "rome"],
      [editedEditorialRegion |-> "italy"],
      [editedEditorialDate |-> "2024-01-05"] }

\* recordEdit is offered while the history it produces stays in the bound
CanRecord(f) == f.historyIndex + 2 <= MaxHistory

\* a field input of the card at position p changes (the inputs are rendered
\* for an item in state success)
OnFieldChange(p, updates) ==
    /\ p \in 1..Len(imageFiles)
    /\ imageFiles[p].state = SUCCESS
    /\ CanRecord(imageFiles[p])
    /\ imageFiles' = recordEdit(imageFiles, imageFiles[p].id, updates)
    /\ lastOp' = EditOp("recordEdit", imageFiles, p)
    /\ UNCHANGED <<isProcessing, abortProcessingRef, totalTokensUsed, tokenUsage, clock, batches,
                   requests, archive, nextId>>
    /\ RegistrySet
    /\ UNCHANGED hostVars

\* the editorial checkbox of the card at position p is toggled (it is
\* rendered in every state): handleToggleEditorial, then
\* handleEditorialUpdate, which is recordEdit
HandleToggleEditorial(p) ==
    /\ p \in 1..Len(imageFiles)
    /\ CanRecord(imageFiles[p])
    /\ LET f == imageFiles[p]
       IN  imageFiles' = recordEdit(imageFiles, f.id,
                                    ToggleEditorialUpdates(f, ~f.editedIsEditorial))
    /\ lastOp' = EditOp("handleToggleEditorial", imageFiles, p)
    /\ UNCHANGED <<isProcessing, abortProcessingRef, totalTokensUsed, tokenUsage, clock, batches,
                   requests, archive, nextId>>
    /\ RegistrySet
    /\ UNCHANGED hostVars

\* an editorial input of the card at position p changes (the inputs are
\* rendered while the editorial flag is on): handleEditorialChange
HandleEditorialChange(p, updates) ==
    /\ p \in 1..Len(imageFiles)
    /\ imageFiles[p].editedIsEditorial
    /\ CanRecord(imageFiles[p])
    /\ Len(EditorialChangeUpdates(imageFiles[p], updates).editedDescription) <= MaxText
    /\ LET f == imageFiles[p]
       IN  imageFiles' = recordEdit(imageFiles, f.id, EditorialChangeUpdates(f, updates))
    /\ lastOp' = EditOp("handleEditorialChange", imageFiles, p)
    /\ UNCHANGED <<isProcessing, abortProcessingRef, totalTokensUsed, tokenUsage, clock, batches,
                   requests, archive, nextId>>
    /\ RegistrySet
    /\ UNCHANGED hostVars

\* the Undo button of the card at position p (disabled while
\* historyIndex <= 0); the item as it was is kept for the observer
OnUndo(p) ==
    /\ p \in 1..Len(imageFiles)
    /\ ~(imageFiles[p].historyIndex <= 0)
    /\ imageFiles' = handleUndo(imageFiles, imageFiles[p].id)
    /\ lastOp' = [Op("handleUndo", p, "") EXCEPT !.saved = <<imageFiles[p]>>]
    /\ UNCHANGED <<isProcessing, abortProcessingRef, totalTokensUsed, tokenUsage, clock, batches,
                   requests, archive, nextId>>
    /\ RegistrySet
    /\ UNCHANGED hostVars

\* the Redo button of the card at position p (disabled while
\* historyIndex >= history.length - 1); when the step before was the undo of
\* the same card, the item saved then stays with the observer
OnRedo(p) ==
    /\ p \in 1..Len(imageFiles)
    /\ ~(imageFiles[p].historyIndex >= Len(imageFiles[p].history) - 1)
    /\ imageFiles' = handleRedo(imageFiles, imageFiles[p].id)
    /\ lastOp' = IF lastOp.op = "handleUndo" /\ lastOp.pos = p
                 THEN [Op("handleRedo", p, "") EXCEPT !.saved = lastOp.saved]
                 ELSE Op("handleRedo", p, "")
    /\ UNCHANGED <<isProcessing, abortProcessingRef, totalTokensUsed, tokenUsage, clock, batches,
                   requests, archive, nextId>>
    /\ RegistrySet
    /\ UNCHANGED hostVars


\* ------------------------------------------- field regenerator, analysis
FlagOf(field) ==
    CASE field = "title" -> "isGeneratingTitle"
      [] field = "description" -> "isGeneratingDescription"
      [] field = "altText" -> "isGeneratingAltText"
      [] field = "keywords" -> "isGeneratingKeywords"
      [] field = "analyze" -> "isAnalyzing"

\* curr.map(item => item.id === id ? {...item, [flag]: value} : item)
SetFlag(reg, id, flag, value) ==
    MapById(reg, id, [p \in 1..Len(reg) |-> [reg[p] EXCEPT ![flag] = value]])

\* the in-flight call of a request: the id and field it was made for and,
\* of the item f the handler closed over, what the continuation reads
Request(f, field) ==
    [id |-> f.id, field |-> field, file |-> f.file,
     editedIsEditorial |-> f.editedIsEditorial]

\* the update handleGenerateField records when the collaborator resolves
GeneratedUpdate(r) ==
    CASE r.field = "title" -> [editedTitle |-> "T"]
      [] r.field = "description" -> [editedDescription |-> <<"g">>]
      [] r.field = "altText" -> [editedAltText |-> "generated alt"]
      [] r.field = "keywords" ->
            [editedKeywords |-> IF r.editedIsEditorial
                                THEN EnforceEditorial(<<"Dog">>)
                                ELSE <<"Dog">>]

\* whether handleGenerateField / handleAnalyze go past their isRestored check
\* for the item f they found
Accepts(f) == ~f.isRestored

\* the Regenerate button of a field of the card at position p (rendered for
\* an item in state success, disabled while the field's busy flag is set):
\* handleGenerateField(id, field) up to its await
HandleGenerateField(p, field) ==
    /\ p \in 1..Len(imageFiles)
    /\ field \in RegenFields
    /\ imageFiles[p].state = SUCCESS
    /\ ~imageFiles[p][FlagOf(field)]
    /\ totalTokensUsed < MaxTokens
    /\ LET id == imageFiles[p].id
           f == imageFiles[Find(imageFiles, id)]
       IN  IF Accepts(f)
           THEN /\ imageFiles' = SetFlag(imageFiles, id, FlagOf(field), TRUE)
                /\ requests' = requests \cup {Request(f, field)}
                /\ lastOp' = RequestOp("handleGenerateField", imageFiles, p, "")
                /\ RegistrySet
           ELSE /\ lastOp' = RequestOp("handleGenerateField", imageFiles, p,
                                       "Cannot regenerate AI content for restored sessions without original files.")
                /\ UNCHANGED <<imageFiles, requests>>
                /\ RegistryKept
    /\ UNCHANGED <<isProcessing, abortProcessingRef, totalTokensUsed, tokenUsage, clock, batches,
                   archive, nextId>>
    /\ UNCHANGED hostVars

\* the registry after the finally block of handleGenerateField for request r
ClearBusy(reg, r) == SetFlag(reg, r.id, FlagOf(r.field), FALSE)

\* the collaborator resolves for request r: tokens, recordEdit, finally
GenerateFieldReturns(r) ==
    /\ r \in requests
    /\ r.field \in RegenFields
    /\ AddTokenUsage(TokensPerCall)
    /\ imageFiles' = ClearBusy(recordEdit(imageFiles, r.id, GeneratedUpdate(r)), r)
    /\ requests' = requests \ {r}
    /\ lastOp' = EditOp("generateFieldReturns", imageFiles, Find(imageFiles, r.id))
    /\ UNCHANGED <<isProcessing, abortProcessingRef, batches, archive, nextId>>
    /\ RegistrySet
    /\ UNCHANGED hostVars

\* the collaborator rejects for request r: catch (toast), finally
GenerateFieldThrows(r, e) ==
    /\ r \in requests
    /\ r.field \in RegenFields
    /\ imageFiles' = ClearBusy(imageFiles, r)
    /\ requests' = requests \ {r}
    /\ lastOp' = Op("generateFieldThrows", 0, getFriendlyErrorMessage(e))
    /\ UNCHANGED <<isProcessing, abortProcessingRef, totalTokensUsed, tokenUsage, clock, batches,
                   archive, nextId>>
    /\ RegistrySet
    /\ UNCHANGED hostVars

\* the Deep AI Content Analysis button of the card at position p (rendered
\* for an item in state success with no analysis and not analyzing):
\* handleAnalyze(id) up to its await
HandleAnalyze(p) ==
    /\ p \in 1..Len(imageFiles)
    /\ imageFiles[p].state = SUCCESS
    /\ ~imageFiles[p].analysis
    /\ ~imageFiles[p].isAnalyzing
    /\ totalTokensUsed < MaxTokens
    /\ LET id == imageFiles[p].id
           f == imageFiles[Find(imageFiles, id)]
       IN  IF Accepts(f)
           THEN /\ imageFiles' = SetFlag(imageFiles, id, "isAnalyzing", TRUE)
                /\ requests' = requests \cup {Request(f, "analyze")}
                /\ lastOp' = RequestOp("handleAnalyze", imageFiles, p, "")
                /\ RegistrySet
           ELSE /\ lastOp' = RequestOp("handleAnalyze", imageFiles, p,
                                       "Cannot analyze restored files.")
                /\ UNCHANGED <<imageFiles, requests>>
                /\ RegistryKept
    /\ UNCHANGED <<isProcessing, abortProcessingRef, totalTokensUsed, tokenUsage, clock, batches,
                   archive, nextId>>
    /\ UNCHANGED hostVars

\* analyzeImageForKeywords resolves for request r
AnalyzeReturns(r) ==
    /\ r \in requests
    /\ r.field = "analyze"
    /\ AddTokenUsage(TokensPerCall)
    /\ imageFiles' = MapById(imageFiles, r.id,
                             [p \in 1..Len(imageFiles) |->
                                [imageFiles[p] EXCEPT !.analysis = TRUE,
                                                      !.isAnalyzing = FALSE]])
    /\ requests' = requests \ {r}
    /\ lastOp' = Quiet
    /\ UNCHANGED <<isProcessing, abortProcessingRef, batches, archive, nextId>>
    /\ RegistrySet
    /\ UNCHANGED hostVars

\* analyzeImageForKeywords rejects for request r
AnalyzeThrows(r, e) ==
    /\ r \in requests
    /\ r.field = "analyze"
    /\ imageFiles' = SetFlag(imageFiles, r.id, "isAnalyzing", FALSE)
    /\ requests' = requests \ {r}
    /\ lastOp' = Op("analyzeThrows", 0, getFriendlyErrorMessage(e))
    /\ UNCHANGED <<isProcessing, abortProcessingRef, totalTokensUsed, tokenUsage, clock, batches,
                   archive, nextId>>
    /\ RegistrySet
    /\ UNCHANGED hostVars

\* ------------------------------------------------- portable session
\* the keys exportSessionToZip leaves out of session.json
Runtime == {"file", "previewUrl", "thumbnailData"}

\* an entry of session.json for item img ({...rest}; fileName and fileType,
\* which nothing reads back, are left out)
ManifestOf(img) == [k \in (DOMAIN img) \ Runtime |-> img[k]]

\* the files of the thumbnails folder: one per id, base64Data being
\* thumbnailData.split(',')[1]
ThumbnailFiles(images) ==
    {[id |-> images[k].id, data |-> images[k].thumbnailData[2]] :
        k \in {n \in 1..Len(images) : Len(images[n].thumbnailData) >= 2}}

\* an export that writes session.json and no thumbnail file
ExportWithoutThumbnails(images) ==
    [readable |-> TRUE, hasSession |-> TRUE, isArray |-> TRUE,
     entries |-> [k \in 1..Len(images) |->
                    [valid |-> TRUE, item |-> ManifestOf(images[k])]],
     thumbnails |-> {}]

\* exportSessionToZip(images): the archive as importSessionFromZip reads it
ExportSessionToZip(images) ==
    [readable |-> TRUE, hasSession |-> TRUE, isArray |-> TRUE,
     entries |-> [k \in 1..Len(images) |->
                    [valid |-> TRUE, item |-> ManifestOf(images[k])]],
     thumbnails |-> ThumbnailFiles(images)]

\* the ways the file handed to the import may differ from what was exported:
\* not a ZIP, no session.json, a root that is no array, a last entry that
\* cannot be reconstructed (null)
Damages == {"unreadable", "no-manifest", "not-a-list", "bad-entry"}

Damaged(zip, d) ==
    CASE d = "unreadable" -> [zip EXCEPT !.readable = FALSE]
      [] d = "no-manifest" -> [zip EXCEPT !.hasSession = FALSE]
      [] d = "not-a-list" -> [zip EXCEPT !.isArray = FALSE]
      [] d = "bad-entry" ->
            [zip EXCEPT !.entries[Len(zip.entries)].valid = FALSE]

PlaceholderUrl == "data:image/svg+xml;base64,placeholder"
ThumbnailUrl == "blob:thumbnail"

\* the image importSessionFromZip reconstructs from a manifest entry
RestoredItem(zip, item) ==
    LET thumbFile == {t \in zip.thumbnails : t.id = item.id}
        data == (CHOOSE t \in thumbFile : TRUE).data
    IN  Merge(item,
              [file |-> DummyFile,
               previewUrl |-> IF thumbFile # {} THEN ThumbnailUrl ELSE PlaceholderUrl,
               thumbnailData |-> IF thumbFile # {}
                                 THEN <<"data:image/jpeg;base64", data>>
                                 ELSE <<>>,
               isRestored |-> TRUE])

\* an import that reconstructs what it can and drops the rest
ImportValidEntries(zip) ==
    [ok |-> zip.readable /\ zip.hasSession /\ zip.isArray,
     images |-> LET good == SelectSeq(zip.entries, LAMBDA e : e.valid)
                IN  [k \in 1..Len(good) |-> RestoredItem(zip, good[k].item)]]

\* importSessionFromZip(zipFile): whether it resolves, and with what; it
\* throws for an unreadable archive, a missing session.json, a root that is
\* no array, and (Promise.all) when any entry fails to reconstruct
ImportSessionFromZip(zip) ==
    IF /\ zip.readable
       /\ zip.hasSession
       /\ zip.isArray
       /\ \A k \in 1..Len(zip.entries) : zip.entries[k].valid
    THEN [ok |-> TRUE,
          images |-> [k \in 1..Len(zip.entries) |->
                        RestoredItem(zip, zip.entries[k].item)]]
    ELSE [ok |-> FALSE, images |-> <<>>]

\* handleExportSession (the Save Session button is disabled for an empty
\* registry): the user keeps the downloaded archive; what was exported is
\* kept beside it (observation only)
HandleExportSession ==
    /\ Len(imageFiles) > 0
    /\ archive.exports < MaxExports
    /\ archive' = [exports |-> archive.exports + 1,
                   zip |-> ExportSessionToZip(imageFiles),
                   exported |-> imageFiles]
    /\ lastOp' = Op("handleExportSession", 0, "Session exported successfully")
    /\ UNCHANGED <<imageFiles, isProcessing, abortProcessingRef, totalTokensUsed, tokenUsage, clock,
                   batches, requests, nextId>>
    /\ RegistryKept
    /\ UNCHANGED hostVars

\* a step of handleImportSession: the registry as it was and the file
\* handed in are kept
ImportOp(reg, zip, toast) ==
    [Op("handleImportSession", 0, toast) EXCEPT !.saved = <<reg, zip>>]

\* handleImportSession with the file zip, while the registry it leaves stays
\* in the bound
HandleImportSession(zip) ==
    /\ Len(imageFiles) + Len(ImportSessionFromZip(zip).images) <= MaxRegistry
    /\ LET got == ImportSessionFromZip(zip)
       IN  IF got.ok
           THEN /\ imageFiles' = imageFiles \o got.images
                /\ lastOp' = ImportOp(imageFiles, zip, "Imported items from session")
                /\ RegistrySet
           ELSE /\ lastOp' = ImportOp(imageFiles, zip,
                                      "Failed to import session. Invalid ZIP file.")
                /\ UNCHANGED imageFiles
                /\ RegistryKept
    /\ UNCHANGED <<isProcessing, abortProcessingRef, totalTokensUsed, tokenUsage, clock, batches,
                   requests, archive, nextId>>
    /\ UNCHANGED hostVars

\* the files the user can hand to the import: the archive exported, or a
\* damaged copy of it
ArchivesHeld ==
    IF archive.exports > 0
    THEN {archive.zip} \cup {Damaged(archive.zip, d) : d \in Damages}
    ELSE {}

\* ------------------------------------------------------ thumbnails
\* generateThumbnail resolves for the uploaded file of item id, with a JPEG
\* data URL or (a file that is no image) with the empty string
ThumbnailResolves(id, loaded) ==
    /\ id \in thumbnailJobs
    /\ imageFiles' =
          MapById(imageFiles, id,
                  [p \in 1..Len(imageFiles) |->
                     [imageFiles[p] EXCEPT
                        !.thumbnailData = IF loaded THEN ThumbnailOf(id) ELSE <<>>]])
    /\ thumbnailJobs' = thumbnailJobs \ {id}
    /\ lastOp' = Quiet
    /\ RegistrySet
    /\ UNCHANGED <<isProcessing, abortProcessingRef, totalTokensUsed, tokenUsage, clock, batches,
                   requests, archive, nextId, isInitialLoad, mounted, store, mounts>>

\* --------------------------------------------------------- local store
\* the ids of a list of items
IdsOf(reg) == {reg[p].id : p \in 1..Len(reg)}

\* the record saveSession adds for an item: {previewUrl, ...storableFile}
Storable(f) == [k \in (DOMAIN f) \ {"previewUrl"} |-> f[k]]

\* the records of a store holding one record per item of reg, in key order
RECURSIVE InKeyOrder(_, _)
InKeyOrder(reg, ids) ==
    IF ids = {} THEN <<>>
    ELSE LET least == CHOOSE i \in ids : \A j \in ids : i <= j
             p == Find(reg, least)
         IN  <<Storable(reg[p])>> \o InKeyOrder(reg, ids \ {least})

\* the store after saveSession(reg) on store st: clear and one add per item
\* in one transaction; an add of a key already added fails and the
\* transaction aborts, which leaves the store as it was
SaveSession(st, reg) ==
    IF Cardinality(IdsOf(reg)) = Len(reg) THEN InKeyOrder(reg, IdsOf(reg)) ELSE st

\* loadSession(), then the migration of the init effect
LoadSession(st) ==
    [k \in 1..Len(st) |-> Merge(st[k], [previewUrl |-> ObjectUrl, isRestored |-> FALSE])]

\* the store after the callback of an auto-save timeout that closed over reg
AutoSaveWrites(st, reg) == IF Len(reg) > 0 THEN SaveSession(st, reg) ELSE <<>>

\* the k-th pending auto-save timeout fires, 2000 ms after it was set
AutoSaveFires(k) ==
    /\ k \in 1..Len(timers)
    /\ store' = AutoSaveWrites(store, timers[k])
    /\ timers' = SubSeq(timers, 1, k - 1) \o SubSeq(timers, k + 1, Len(timers))
    /\ autoSaveTimerRef' = IF k = Len(timers) THEN FALSE ELSE autoSaveTimerRef
    /\ lastOp' = [Op("autoSave", 0, "") EXCEPT !.saved = <<timers[k]>>]
    /\ UNCHANGED <<imageFiles, isProcessing, abortProcessingRef, totalTokensUsed, tokenUsage, clock,
                   batches, requests, archive, nextId, isInitialLoad, mounted,
                   thumbnailJobs, mounts>>

\* the App component is torn down (the page is left): the cleanup of the
\* auto-save effect runs
Unmount ==
    /\ mounted
    /\ mounted' = FALSE
    /\ timers' = IF isInitialLoad THEN timers ELSE ClearAutoSaveTimer(timers, autoSaveTimerRef)
    /\ autoSaveTimerRef' = IF isInitialLoad THEN autoSaveTimerRef ELSE FALSE
    /\ lastOp' = Op("unmount", 0, "")
    /\ UNCHANGED <<imageFiles, isProcessing, abortProcessingRef, totalTokensUsed, tokenUsage, clock,
                   batches, requests, archive, nextId, isInitialLoad, store,
                   thumbnailJobs, mounts>>

\* the page is opened again: the state of a fresh App; the local store, the
\* stored token usage and the user's archive outlive the page
Mount ==
    /\ ~mounted
    /\ mounted' = TRUE
    /\ mounts' = mounts + 1
    /\ imageFiles' = <<>>
    /\ isProcessing' = FALSE
    /\ abortProcessingRef' = FALSE
    /\ batches' = <<>>
    /\ requests' = {}
    /\ thumbnailJobs' = {}
    /\ isInitialLoad' = TRUE
    /\ timers' = <<>>
    /\ autoSaveTimerRef' = FALSE
    /\ totalTokensUsed' = 0
    /\ lastOp' = Op("mount", 0, "")
    /\ UNCHANGED <<tokenUsage, clock, archive, nextId, store>>

\* the init effect completes: the token usage of today is read, a session
\* found in the local store is resumed, isInitialLoad is cleared and the
\* auto-save effect runs; the stored usage it found is kept for the observer
InitEffect ==
    /\ mounted
    /\ isInitialLoad
    /\ imageFiles' = IF Len(store) > 0 THEN LoadSession(store) ELSE imageFiles
    /\ isInitialLoad' = FALSE
    /\ timers' = AutoSaveEffect(timers, autoSaveTimerRef, imageFiles', FALSE).timers
    /\ autoSaveTimerRef' = AutoSaveEffect(timers, autoSaveTimerRef, imageFiles', FALSE).ref
    /\ totalTokensUsed' = GetTodaysTokenUsage(tokenUsage, clock).tokens
    /\ tokenUsage' = GetTodaysTokenUsage(tokenUsage, clock).stored
    /\ lastOp' = [Op("init", 0, IF Len(store) > 0 THEN "Session resumed automatically" ELSE "")
                    EXCEPT !.saved = <<tokenUsage>>]
    /\ UNCHANGED <<isProcessing, abortProcessingRef, clock, batches,
                   requests, archive, nextId, mounted, store, thumbnailJobs, mounts>>

\* the init effect completes after loadSession() rejected: the catch block
\* logs the error, the registry stays as it is, isInitialLoad is cleared and
\* the auto-save effect runs
InitEffectCatches ==
    /\ mounted
    /\ isInitialLoad
    /\ Len(store) > 0
    /\ isInitialLoad' = FALSE
    /\ timers' = AutoSaveEffect(timers, autoSaveTimerRef, imageFiles, FALSE).timers
    /\ autoSaveTimerRef' = AutoSaveEffect(timers, autoSaveTimerRef, imageFiles, FALSE).ref
    /\ totalTokensUsed' = GetTodaysTokenUsage(tokenUsage, clock).tokens
    /\ tokenUsage' = GetTodaysTokenUsage(tokenUsage, clock).stored
    /\ lastOp' = [Op("init", 0, "") EXCEPT !.saved = <<tokenUsage>>]
    /\ UNCHANGED <<imageFiles, isProcessing, abortProcessingRef, clock, batches,
                   requests, archive, nextId, mounted, store, thumbnailJobs, mounts>>

\* half a day passes
ClockTicks ==
    /\ clock < MaxClock
    /\ clock' = clock + 1
    /\ lastOp' = Quiet
    /\ UNCHANGED <<imageFiles, isProcessing, abortProcessingRef, totalTokensUsed,
                   tokenUsage, batches, requests, archive, nextId, isInitialLoad,
                   mounted, timers, autoSaveTimerRef, store, thumbnailJobs, mounts>>

\* ------------------------------------------------------------ CSV export
\* text.replace(/"/g, '""')
RECURSIVE ReplaceQuotes(_)
ReplaceQuotes(text) ==
    IF text = <<>> THEN <<>>
    ELSE (IF Head(text) = "\"" THEN <<"\"", "\"">> ELSE <<Head(text)>>)
         \o ReplaceQuotes(Tail(text))

\* `"${text}"`
InQuotes(text) == <<"\"">> \o text \o <<"\"">>

\* Array.prototype.join(sep) on texts
RECURSIVE Join(_, _)
Join(texts, sep) ==
    IF texts = <<>> THEN <<>>
    ELSE IF Len(texts) = 1 THEN texts[1]
    ELSE texts[1] \o sep \o Join(Tail(texts), sep)

\* editedKeywords as the string the item holds: the keywords joined by ', '
KeywordsText(kws) == Join([k \in 1..Len(kws) |-> <<kws[k]>>], <<", ">>)

\* STOCK_CATEGORIES (Russian names, written here in Latin letters)
STOCK_CATEGORIES ==
    <<"Abstraktsiya", "Zhivotnye i dikaya priroda", "Iskusstvo", "Fony i tekstury",
      "Krasota i moda", "Zdaniya i dostoprimechatelnosti", "Biznes i finansy",
      "Znamenitosti", "Obrazovanie", "Eda i napitki", "Zdravookhranenie i meditsina",
      "Prazdniki", "Promyshlennost", "Interery", "Raznoe", "Priroda", "Predmety",
      "Parki i priroda", "Lyudi", "Religiya", "Nauka", "Znaki i simvoly",
      "Sport i otdykh", "Tekhnologii", "Transport", "Vintazh">>

\* CATEGORY_TRANSLATIONS, as its entries <<key, value>> in the order of the
\* source; the key of Signs/Symbols has the word 'and' in Latin letters
CATEGORY_TRANSLATIONS ==
    << <<"Abstraktsiya", "Abstract">>,
       <<"Zhivotnye i dikaya priroda", "Animals/Wildlife">>,
       <<"Iskusstvo", "The Arts">>,
       <<"Fony i tekstury", "Backgrounds/Textures">>,
       <<"Krasota i moda", "Beauty/Fashion">>,
       <<"Zdaniya i dostoprimechatelnosti", "Buildings/Landmarks">>,
       <<"Biznes i finansy", "Business/Finance">>,
       <<"Znamenitosti", "Celebrities">>,
       <<"Obrazovanie", "Education">>,
       <<"Eda i napitki", "Food and Drink">>,
       <<"Zdravookhranenie i meditsina", "Healthcare/Medical">>,
       <<"Prazdniki", "Holidays">>,
       <<"Promyshlennost", "Industrial">>,
       <<"Interery", "Interiors">>,
       <<"Raznoe", "Miscellaneous">>,
       <<"Priroda", "Nature">>,
       <<"Predmety", "Objects">>,
       <<"Parki i priroda", "Parks/Outdoor">>,
       <<"Lyudi", "People">>,
       <<"Religiya", "Religion">>,
       <<"Nauka", "Science">>,
       <<"Znaki and simvoly", "Signs/Symbols">>,
       <<"Sport i otdykh", "Sports/Recreation">>,
       <<"Tekhnologii", "Technology">>,
       <<"Transport", "Transportation">>,
       <<"Vintazh", "Vintage">> >>

\* the keys of CATEGORY_TRANSLATIONS
TranslatedCategories ==
    {CATEGORY_TRANSLATIONS[i][1] : i \in 1..Len(CATEGORY_TRANSLATIONS)}

\* CATEGORY_TRANSLATIONS[rawCategory] || rawCategory
EnglishCategory(rawCategory) ==
    IF rawCategory \in TranslatedCategories
    THEN CATEGORY_TRANSLATIONS[CHOOSE i \in 1..Len(CATEGORY_TRANSLATIONS) :
                                  CATEGORY_TRANSLATIONS[i][1] = rawCategory][2]
    ELSE rawCategory

CsvHeaders ==
    <<"Filename", "Description", "Keywords", "Categories", "Editorial",
      "Mature content", "illustration">>

\* the row handleExportCsv builds for a successful item
CsvRow(f) ==
    LET filename == InQuotes(f.file.name)
        description == InQuotes(ReplaceQuotes(f.editedDescription))
        keywords == InQuotes(ReplaceQuotes(KeywordsText(f.editedKeywords)))
        categories == InQuotes(Tok(EnglishCategory(f.editedCategory)))
        editorial == IF f.editedIsEditorial THEN InQuotes(<<"Yes">>) ELSE InQuotes(<<"No">>)
        matureContent == InQuotes(<<"No">>)
        illustration == InQuotes(<<"No">>)
    IN  Join(<<filename, description, keywords, categories, editorial,
               matureContent, illustration>>, <<",">>)

\* imageFiles.filter(f => f.state === ProcessingState.SUCCESS)
SuccessfulItems(reg) == SelectSeq(reg, LAMBDA f : f.state = SUCCESS)

\* the text of metadata.csv: the byte order mark, the header line and the
\* rows, joined by line feeds
CsvText(reg) ==
    LET success == SuccessfulItems(reg)
        rows == [k \in 1..Len(success) |-> CsvRow(success[k])]
    IN  <<"\\uFEFF">> \o Join(<<Join([h \in 1..Len(CsvHeaders) |-> <<CsvHeaders[h]>>],
                                    <<",">>)>> \o rows, <<"\n">>)

\* handleExportCsv: nothing without a successful item; the file downloaded
\* is kept for the observer, its lines apart
HandleExportCsv ==
    /\ Len(SuccessfulItems(imageFiles)) > 0
    /\ lastOp' = [Op("handleExportCsv", 0, "CSV exported successfully") EXCEPT
                    !.saved = <<[headers |-> CsvHeaders,
                                 rows |-> [k \in 1..Len(SuccessfulItems(imageFiles)) |->
                                             CsvRow(SuccessfulItems(imageFiles)[k])],
                                 text |-> CsvText(imageFiles)]>>]
    /\ UNCHANGED <<imageFiles, isProcessing, abortProcessingRef, totalTokensUsed, tokenUsage, clock,
                   batches, requests, archive, nextId>>
    /\ RegistryKept
    /\ UNCHANGED hostVars

\* the items a registry may hold when the CSV is exported: files of any
\* name, successful or failed, with any description, keywords, category and
\* editorial flag
CsvNames == { <<"a.jpg">>, <<"a", "\"", ".jpg">> }
CsvDescriptions == { <<>>, <<"He said ", "\"", "hi", "\"">> }
CsvKeywords == { <<"cat">>, <<"cat", "\"">> }
CsvCategories == { "", "Priroda", "\"" }

CsvItems(id) ==
    { Merge(NewImageFile(id),
            [state |-> st, file |-> FileNamed(n), editedDescription |-> d,
             editedKeywords |-> k, editedCategory |-> c, editedIsEditorial |-> e]) :
      st \in {SUCCESS, ERROR}, n \in CsvNames, d \in CsvDescriptions,
      k \in CsvKeywords, c \in CsvCategories, e \in BOOLEAN }

\* a registry of two such items
InitCsv ==
    /\ imageFiles \in { <<f, g>> : f \in CsvItems(1), g \in CsvItems(2) }
    /\ isProcessing = FALSE
    /\ abortProcessingRef = FALSE
    /\ totalTokensUsed = 0
    /\ batches = <<>>
    /\ requests = {}
    /\ archive = [exports |-> 0, zip |-> NoZip, exported |-> <<>>]
    /\ nextId = 3
    /\ lastOp = Op("init", 0, "")
    /\ isInitialLoad = FALSE
    /\ mounted = TRUE
    /\ timers = <<imageFiles>>
    /\ autoSaveTimerRef = TRUE
    /\ store = <<>>
    /\ thumbnailJobs = {}
    /\ mounts = 1
    /\ tokenUsage = NoUsage
    /\ clock = 0

\* a registry of two items, successful or failed, whose category is one of
\* the options of the category select of the card
CategoryItems(id) ==
    { Merge(NewImageFile(id), [state |-> st, editedCategory |-> c]) :
      st \in {SUCCESS, ERROR}, c \in SeqToSet(STOCK_CATEGORIES) }

InitCategories ==
    /\ imageFiles \in { <<f, g>> : f \in CategoryItems(1), g \in CategoryItems(2) }
    /\ isProcessing = FALSE
    /\ abortProcessingRef = FALSE
    /\ totalTokensUsed = 0
    /\ batches = <<>>
    /\ requests = {}
    /\ archive = [exports |-> 0, zip |-> NoZip, exported |-> <<>>]
    /\ nextId = 3
    /\ lastOp = Op("init", 0, "")
    /\ isInitialLoad = FALSE
    /\ mounted = TRUE
    /\ timers = <<imageFiles>>
    /\ autoSaveTimerRef = TRUE
    /\ store = <<>>
    /\ thumbnailJobs = {}
    /\ mounts = 1
    /\ tokenUsage = NoUsage
    /\ clock = 0

\* ----------------------------------------------------- collaborator call
\* a collaborator call made through withApiRetry whose attempts end as
\* outcomes says; the core shows getFriendlyErrorMessage of what it throws.
\* What the attempts ended with and what the call ended with are kept for
\* the observer.
CollaboratorCall(outcomes) ==
    /\ lastOp' = [Op("withApiRetry", 0,
                     IF withApiRetry(outcomes).ok THEN ""
                     ELSE getFriendlyErrorMessage(withApiRetry(outcomes).message))
                    EXCEPT !.saved = <<outcomes, withApiRetry(outcomes)>>]
    /\ UNCHANGED <<imageFiles, isProcessing, abortProcessingRef, totalTokensUsed,
                   tokenUsage, clock, batches, requests, archive, nextId>>
    /\ RegistryKept
    /\ UNCHANGED hostVars

\* ---------------------------------------------------------- specification
\* One uploaded file through its whole life: batch processing, retry, the
\* edits of its card, undo and redo, field regeneration.
Next ==
    \/ \E n \in 1..MaxFiles :
          /\ nextId + n - 1 <= MaxFiles
          /\ Len(batches) < MaxBatches
          /\ HandleFilesSelected(n)
    \/ \E p \in 1..MaxFiles : Len(batches) < MaxBatches /\ OnRetry(p)
    \/ \E b \in 1..MaxBatches : BatchWake(b)
    \/ \E b \in 1..MaxBatches, m \in MetadataResults : BatchCallReturns(b, m)
    \/ \E b \in 1..MaxBatches, e \in ErrorKinds : BatchCallThrows(b, e)
    \/ \E p \in 1..MaxFiles, u \in FieldEdits : OnFieldChange(p, u)
    \/ \E p \in 1..MaxFiles : HandleToggleEditorial(p)
    \/ \E p \in 1..MaxFiles, u \in EditorialEdits : HandleEditorialChange(p, u)
    \/ \E p \in 1..MaxFiles : OnUndo(p)
    \/ \E p \in 1..MaxFiles : OnRedo(p)
    \/ \E p \in 1..MaxFiles, field \in RegenFields :
          Cardinality(requests) < MaxInFlight /\ HandleGenerateField(p, field)
    \/ \E r \in requests : GenerateFieldReturns(r)
    \/ \E r \in requests, e \in ErrorKinds : GenerateFieldThrows(r, e)

Spec == Init /\ [][Next]_vars

\* Batches of several files: uploads, retries, the batch loop and Clear All.
NextBatch ==
    \/ \E n \in 1..BatchFiles :
          /\ nextId + n - 1 <= BatchFiles
          /\ Len(batches) < BatchRuns
          /\ HandleFilesSelected(n)
    \/ \E p \in 1..BatchFiles : Len(batches) < BatchRuns /\ OnRetry(p)
    \/ \E b \in 1..BatchRuns : BatchWake(b)
    \/ \E b \in 1..BatchRuns, m \in MetadataResults : BatchCallReturns(b, m)
    \/ \E b \in 1..BatchRuns, e \in ErrorKinds : BatchCallThrows(b, e)
    \/ HandleClear

SpecBatch == Init /\ [][NextBatch]_vars

\* every call the batch awaits returns: the timer of the pause fires and the
\* collaborator call resolves or rejects
FairBatch ==
    /\ \A b \in 1..BatchRuns : WF_vars(BatchWake(b))
    /\ \A b \in 1..BatchRuns :
          WF_vars(\/ \E m \in MetadataResults : BatchCallReturns(b, m)
                  \/ \E e \in ErrorKinds : BatchCallThrows(b, e))

FairSpecBatch == SpecBatch /\ FairBatch

\* One uploaded file with regeneration, analysis, session export and import
\* and Clear All.
NextSession ==
    \/ \E n \in 1..MaxFiles :
          /\ nextId + n - 1 <= MaxFiles
          /\ Len(batches) < BatchRuns
          /\ HandleFilesSelected(n)
    \/ \E p \in 1..MaxRegistry : Len(batches) < BatchRuns /\ OnRetry(p)
    \/ \E b \in 1..BatchRuns : BatchWake(b)
    \/ \E b \in 1..BatchRuns, m \in MetadataResults : BatchCallReturns(b, m)
    \/ \E b \in 1..BatchRuns, e \in ErrorKinds : BatchCallThrows(b, e)
    \/ \E p \in 1..MaxRegistry, field \in RegenFields :
          Cardinality(requests) < SessionInFlight /\ HandleGenerateField(p, field)
    \/ \E r \in requests : GenerateFieldReturns(r)
    \/ \E r \in requests, e \in ErrorKinds : GenerateFieldThrows(r, e)
    \/ \E p \in 1..MaxRegistry :
          Cardinality(requests) < SessionInFlight /\ HandleAnalyze(p)
    \/ \E r \in requests : AnalyzeReturns(r)
    \/ \E r \in requests, e \in ErrorKinds : AnalyzeThrows(r, e)
    \/ HandleExportSession
    \/ \E zip \in ArchivesHeld : HandleImportSession(zip)
    \/ HandleClear

SpecSession == Init /\ [][NextSession]_vars


\* One uploaded file with its thumbnail, regeneration of its title, session
\* export and import, Clear All, the debounced auto-save and the page being
\* left and opened again.
NextPersist ==
    \/ \E n \in 1..MaxFiles :
          /\ mounted
          /\ nextId + n - 1 <= MaxFiles
          /\ Len(batches) < MaxBatches
          /\ HandleFilesSelected(n)
    \/ \E b \in 1..MaxBatches : mounted /\ BatchWake(b)
    \/ \E b \in 1..MaxBatches, m \in MetadataResults : mounted /\ BatchCallReturns(b, m)
    \/ \E b \in 1..MaxBatches, e \in ErrorKinds : mounted /\ BatchCallThrows(b, e)
    \/ \E p \in 1..MaxRegistry :
          mounted /\ Cardinality(requests) < MaxInFlight /\ HandleGenerateField(p, "title")
    \/ \E r \in requests : mounted /\ GenerateFieldReturns(r)
    \/ \E r \in requests, e \in ErrorKinds : mounted /\ GenerateFieldThrows(r, e)
    \/ \E id \in 1..MaxFiles, loaded \in BOOLEAN : mounted /\ ThumbnailResolves(id, loaded)
    \/ mounted /\ HandleExportSession
    \/ mounted /\ archive.exports > 0 /\ HandleImportSession(archive.zip)
    \/ mounted /\ HandleClear
    \/ \E k \in 1..MaxRegistry : mounted /\ AutoSaveFires(k)
    \/ Unmount
    \/ mounts < MaxMounts /\ Mount
    \/ InitEffect

SpecPersist == Init /\ [][NextPersist]_vars

\* One card and its editorial controls: an upload of one file, its
\* generation call resolving to any answer of the metadata schema, then the
\* description input, the editorial checkbox and inputs, undo and redo.
EditorialMetadata ==
    { [title |-> "A", description |-> d, keywords |-> <<"cat">>,
       category |-> "", isEditorial |-> e, editorialCity |-> c,
       editorialRegion |-> r, editorialDate |-> dt, editorialFact |-> ""] :
      d \in { <<"d">>, <<"d", " ">>, <<"ROME", ":", " ", "d">> },
      e \in BOOLEAN, c \in {"", "rome"}, r \in {"", "italy"},
      dt \in {"", "2024-01-05"} }

\* what the description input of the card passes to recordEdit
EditorialTexts == { [editedDescription |-> <<"d", " ">>] }

NextEditorial ==
    \/ nextId = 1 /\ batches = <<>> /\ HandleFilesSelected(1)
    \/ BatchWake(1)
    \/ \E m \in EditorialMetadata : BatchCallReturns(1, m)
    \/ \E u \in EditorialTexts : OnFieldChange(1, u)
    \/ HandleToggleEditorial(1)
    \/ \E u \in EditorialEdits : HandleEditorialChange(1, u)
    \/ OnUndo(1)
    \/ OnRedo(1)

SpecEditorial == Init /\ [][NextEditorial]_vars

\* Archives of several items: an upload of several files whose thumbnails
\* load or fail, the batch loop, a title edit and its undo, Save Session,
\* Clear All and the import of the archive or of a damaged copy of it.
NextArchive ==
    \/ nextId = 1 /\ HandleFilesSelected(ArchiveFiles)
    \/ BatchWake(1)
    \/ \E m \in MetadataResults : BatchCallReturns(1, m)
    \/ \E id \in 1..ArchiveFiles, loaded \in BOOLEAN : ThumbnailResolves(id, loaded)
    \/ archive.exports = 0 /\ OnFieldChange(1, [editedTitle |-> ""])
    \/ archive.exports = 0 /\ OnUndo(1)
    \/ HandleExportSession
    \/ archive.exports > 0 /\ HandleClear
    \/ \E zip \in ArchivesHeld : HandleImportSession(zip)

SpecArchive == Init /\ [][NextArchive]_vars

\* One uploaded file whose title and alt text are edited, undone and
\* redone, with Save Session and the import of the saved archive next to
\* the item it was saved from.
NextHistory ==
    \/ nextId = 1 /\ HandleFilesSelected(1)
    \/ BatchWake(1)
    \/ \E m \in MetadataResults : BatchCallReturns(1, m)
    \/ \E p \in 1..MaxRegistry : OnFieldChange(p, [editedTitle |-> ""])
    \/ \E p \in 1..MaxRegistry : OnFieldChange(p, [editedAltText |-> "alt"])
    \/ \E p \in 1..MaxRegistry : OnUndo(p)
    \/ \E p \in 1..MaxRegistry : OnRedo(p)
    \/ HandleExportSession
    \/ \E zip \in ArchivesHeld : HandleImportSession(zip)

SpecHistory == Init /\ [][NextHistory]_vars

\* One uploaded file whose generation fails and is retried, the Retry button
\* staying on the card until a batch claims the item, with a title edit of
\* the finished item.
NextLifecycle ==
    \/ nextId = 1 /\ HandleFilesSelected(1)
    \/ Len(batches) < LifecycleRuns /\ OnRetry(1)
    \/ \E b \in 1..LifecycleRuns : BatchWake(b)
    \/ \E b \in 1..LifecycleRuns, m \in MetadataResults : BatchCallReturns(b, m)
    \/ \E b \in 1..LifecycleRuns, e \in ErrorKinds : BatchCallThrows(b, e)
    \/ OnFieldChange(1, [editedTitle |-> ""])

SpecLifecycle == Init /\ [][NextLifecycle]_vars

\* One card, its keywords input and its editorial checkbox: what the user
\* types into the keywords input, as the tokens split(',') gives
KeywordEdits ==
    { [editedKeywords |-> <<"cat">>],
      [editedKeywords |-> <<"Editorial", "cat">>],
      [editedKeywords |-> <<"editorial", "cat", "Editorial">>] }

NextKeywords ==
    \/ nextId = 1 /\ HandleFilesSelected(1)
    \/ BatchWake(1)
    \/ \E m \in MetadataResults : BatchCallReturns(1, m)
    \/ \E u \in KeywordEdits : OnFieldChange(1, u)
    \/ HandleToggleEditorial(1)
    \/ OnUndo(1)

SpecKeywords == Init /\ [][NextKeywords]_vars

\* One uploaded file, the debounced auto-save, Clear All, and the page being
\* left and opened again, the session of the local store being resumed or
\* its load failing.
NextResume ==
    \/ mounted /\ nextId = 1 /\ HandleFilesSelected(1)
    \/ mounted /\ BatchWake(1)
    \/ \E m \in MetadataResults : mounted /\ BatchCallReturns(1, m)
    \/ mounted /\ OnFieldChange(1, [editedTitle |-> ""])
    \/ mounted /\ HandleClear
    \/ \E k \in 1..MaxRegistry : mounted /\ AutoSaveFires(k)
    \/ Unmount
    \/ mounts < MaxMounts /\ Mount
    \/ InitEffect
    \/ InitEffectCatches

SpecResume == Init /\ [][NextResume]_vars

\* One file at a time with every call the card can start (generation,
\* regeneration of the title, analysis, thumbnail), Clear All while they are
\* in flight, and a second upload.
NextClear ==
    \/ nextId <= MaxRegistry /\ Len(batches) < BatchRuns /\ HandleFilesSelected(1)
    \/ \E b \in 1..BatchRuns : BatchWake(b)
    \/ \E b \in 1..BatchRuns, m \in MetadataResults : BatchCallReturns(b, m)
    \/ \E b \in 1..BatchRuns, e \in ErrorKinds : BatchCallThrows(b, e)
    \/ \E p \in 1..MaxRegistry :
          Cardinality(requests) < MaxInFlight /\ HandleGenerateField(p, "title")
    \/ \E r \in requests : GenerateFieldReturns(r)
    \/ \E r \in requests, e \in ErrorKinds : GenerateFieldThrows(r, e)
    \/ \E p \in 1..MaxRegistry : Cardinality(requests) < MaxInFlight /\ HandleAnalyze(p)
    \/ \E r \in requests : AnalyzeReturns(r)
    \/ \E r \in requests, e \in ErrorKinds : AnalyzeThrows(r, e)
    \/ \E id \in 1..MaxRegistry, loaded \in BOOLEAN : ThumbnailResolves(id, loaded)
    \/ HandleClear

SpecClear == Init /\ [][NextClear]_vars

\* The CSV export of a registry whose categories come from the select.
NextCategories == HandleExportCsv

SpecCategories == InitCategories /\ [][NextCategories]_vars

\* The CSV export of a registry of finished items.
NextCsv == HandleExportCsv

SpecCsv == InitCsv /\ [][NextCsv]_vars

\* The token ledger over several days: one file processed and its title
\* regenerated, the page left and opened again, the clock advancing.
NextQuota ==
    \/ mounted /\ nextId = 1 /\ HandleFilesSelected(1)
    \/ mounted /\ BatchWake(1)
    \/ mounted /\ \E m \in MetadataResults : BatchCallReturns(1, m)
    \/ mounted /\ Cardinality(requests) < MaxInFlight /\ HandleGenerateField(1, "title")
    \/ mounted /\ \E r \in requests : GenerateFieldReturns(r)
    \/ \E k \in 1..MaxRegistry : AutoSaveFires(k)
    \/ Unmount
    \/ mounts < MaxMounts /\ Mount
    \/ InitEffect
    \/ ClockTicks

SpecQuota == Init /\ [][NextQuota]_vars

\* Collaborator calls whose attempts return or throw.
AttemptOutcomes == RawErrors \cup {Returned}

NextRetry ==
    \E first \in AttemptOutcomes, second \in AttemptOutcomes :
        CollaboratorCall(<<first, second>>)

SpecRetry == Init /\ [][NextRetry]_vars

\* ------------------------------------------------------------ properties
\* C1: for every item of the registry, a non-empty history has its cursor
\* inside it (0 <= historyIndex < history.length), and historyIndex is -1
\* exactly when the history is empty.
HistoryIndexInBounds ==
    \A p \in 1..Len(imageFiles) :
        LET f == imageFiles[p]
        IN  /\ Len(f.history) > 0 =>
                  0 <= f.historyIndex /\ f.historyIndex < Len(f.history)
            /\ f.historyIndex = -1 <=> Len(f.history) = 0

\* an item with a full history whose cursor was moved back by an undo
HistoryIndexWitness ==
    /\ lastOp.op = "handleUndo"
    /\ Len(imageFiles[lastOp.pos].history) = MaxHistory
    /\ imageFiles[lastOp.pos].historyIndex = 1

\* what C2 compares of an item: its history, its cursor and its live
\* editable fields
Edited(f) == [k \in EditableFields \cup {"history", "historyIndex"} |-> f[k]]

\* C2: when an undo of an item with historyIndex > 0 is immediately followed
\* by a redo of it, the item's history, historyIndex and live editable fields
\* are those it had before the undo.
UndoRedoRoundTrip ==
    lastOp.op = "handleRedo" /\ lastOp.saved # <<>> =>
        Edited(imageFiles[lastOp.pos]) = Edited(lastOp.saved[1])

\* a redo right after an undo that changed the live title of the item
UndoRedoWitness ==
    /\ lastOp.op = "handleRedo"
    /\ lastOp.saved # <<>>
    /\ lastOp.saved[1].historyIndex > 0
    /\ UndoItem(lastOp.saved[1]).editedTitle # lastOp.saved[1].editedTitle

\* the steps that end in recordEdit
RecordingOps ==
    {"recordEdit", "handleToggleEditorial", "handleEditorialChange",
     "generateFieldReturns"}

\* C3: a recordEdit on an item whose cursor is not at the end of its history
\* leaves history[0..cursor] followed by exactly one new snapshot, with the
\* cursor on that snapshot, so that a following redo changes nothing.
RecordEditDiscardsRedoBranch ==
    lastOp.op \in RecordingOps /\ lastOp.saved # <<>> =>
        LET old == lastOp.saved[1]
            f == imageFiles[lastOp.pos]
        IN  /\ Len(f.history) = old.historyIndex + 2
            /\ SubSeq(f.history, 1, old.historyIndex + 1)
                  = SubSeq(old.history, 1, old.historyIndex + 1)
            /\ f.historyIndex = Len(f.history) - 1
            /\ RedoItem(f) = f

\* a field edit on an item with two snapshots after its cursor
RecordEditWitness ==
    /\ lastOp.op = "recordEdit"
    /\ lastOp.saved # <<>>
    /\ Len(lastOp.saved[1].history) = MaxHistory
    /\ lastOp.saved[1].historyIndex = 0
    /\ Len(imageFiles[lastOp.pos].history) = 2

\* the outcomes of a finished item of a batch
Finished == {"success", "error", "skipped"}

\* C4: within one batch the items are claimed in submission order and one
\* at a time: an item is claimed (marked processing, its generation call
\* started) only when every earlier item of the batch has reached success
\* or error or was skipped, at most one item of the batch is in flight, and
\* the generation calls of the batch are started in submission order.
BatchClaimsInOrder ==
    \A b \in 1..Len(batches) :
        LET B == batches[b]
        IN  /\ \A k \in 1..Len(B.files) :
                  B.outcome[k] # "none" =>
                      \A j \in 1..(k - 1) : B.outcome[j] \in Finished
            /\ Cardinality({k \in 1..Len(B.files) : B.outcome[k] = "inflight"}) <= 1
            /\ \A c \in 1..Len(B.calls) :
                  \A d \in (c + 1)..Len(B.calls) : B.calls[c].k < B.calls[d].k

\* a batch of three whose third item is in flight after a failure and a
\* success
BatchClaimsWitness ==
    \E b \in 1..Len(batches) :
        /\ Len(batches[b].files) = BatchFiles
        /\ batches[b].outcome = <<"error", "success", "inflight">>

\* C5: a failed generation call marks its item error with the message of
\* the toast, and from a failure of item k of a batch the batch goes on to
\* its end with every later item skipped, successful or failed (each call
\* returning, which is the fairness of FairSpecBatch; abortProcessingRef is
\* never set).
FailureIsIsolated ==
    /\ [](lastOp.op = "batchCallThrows" /\ lastOp.pos # 0 =>
             /\ lastOp.toast # ""
             /\ imageFiles[lastOp.pos].state = ERROR
             /\ imageFiles[lastOp.pos].error = lastOp.toast)
    /\ \A b \in 1..BatchRuns, k \in 1..BatchFiles :
          (b <= Len(batches) /\ k <= Len(batches[b].files)
              /\ batches[b].outcome[k] = "error")
          ~> (/\ b <= Len(batches)
              /\ batches[b].pc = "done"
              /\ \A j \in (k + 1)..Len(batches[b].files) :
                    batches[b].outcome[j] \in Finished)

\* a finished batch of three whose first item failed and whose third item
\* succeeded
FailureIsolatedWitness ==
    \E b \in 1..Len(batches) :
        /\ batches[b].pc = "done"
        /\ Len(batches[b].files) = BatchFiles
        /\ batches[b].outcome[1] = "error"
        /\ batches[b].outcome[3] = "success"

\* the number of positions of seq that hold t
Count(seq, t) == Cardinality({i \in 1..Len(seq) : seq[i] = t})

\* C6: the previousTitles passed to the generation call of item k of a
\* batch hold every title (a title being a non-empty string) as many times
\* as it is the title of an item that was successful in the registry when
\* the batch started, plus as many times as it was generated for an earlier
\* item of the same batch.
ContextHoldsEveryTitle ==
    \A b \in 1..Len(batches) :
        LET B == batches[b]
        IN  \A c \in 1..Len(B.calls) :
                \A t \in {"A", "B"} :
                    Count(B.calls[c].previousTitles, t) =
                        Cardinality({p \in 1..Len(B.registryAtStart) :
                                        /\ B.registryAtStart[p].state = SUCCESS
                                        /\ B.registryAtStart[p].editedTitle = t})
                        + Cardinality({j \in 1..(B.calls[c].k - 1) :
                                        /\ B.outcome[j] = "success"
                                        /\ B.generated[j] = t})

\* the call for the third item of a batch whose first two items were given
\* the same title
ContextWitness ==
    \E b \in 1..Len(batches) :
        \E c \in 1..Len(batches[b].calls) :
            /\ batches[b].calls[c].k = 3
            /\ batches[b].calls[c].previousTitles = <<"A", "A">>

\* C7 (the reset being the only request to stop a batch the program
\* offers): when Clear All comes after item 1 of a batch has completed and
\* before item 2 is claimed, no generation call is started for item 2 or a
\* later item of that batch.
NoCallAfterCancelBetweenItems ==
    \A b \in 1..Len(batches) :
        LET B == batches[b]
        IN  B.clearedAt = 2 /\ B.clearedIdle =>
                \A c \in 1..Len(B.calls) : B.calls[c].k < 2

\* C8: no generation call of a batch is started after Clear All was issued
\* while the batch was running.
NoCallAfterClear ==
    \A b \in 1..Len(batches) :
        \A c \in 1..Len(batches[b].calls) : batches[b].calls[c].clearedAt = 0

\* C9: a busy flag of an item is set only while a call for that item and
\* field is in flight.
NoStuckBusyFlag ==
    \A p \in 1..Len(imageFiles) :
        \A field \in RegenFields \cup {"analyze"} :
            imageFiles[p][FlagOf(field)] =>
                \E r \in requests : r.id = imageFiles[p].id /\ r.field = field

\* C10: a regeneration or analysis request made from the card of a restored
\* item produces an error message and leaves the item as it was.
RestoredRequestIsNoOp ==
    /\ lastOp.op \in {"handleGenerateField", "handleAnalyze"}
    /\ lastOp.saved # <<>>
    /\ lastOp.saved[1].isRestored
    => /\ lastOp.toast # ""
       /\ imageFiles[lastOp.pos] = lastOp.saved[1]


\* C11: no generation, regeneration or analysis call is issued with the dummy
\* file of an item reconstructed from an imported archive.
NoCallForDummyFile ==
    /\ \A r \in requests : r.file # DummyFile
    /\ \A b \in 1..Len(batches) :
          \A c \in 1..Len(batches[b].calls) : batches[b].calls[c].file # DummyFile


\* the editable field a regeneration of the given field writes
KeyOf(field) ==
    CASE field = "title" -> "editedTitle"
      [] field = "description" -> "editedDescription"
      [] field = "altText" -> "editedAltText"
      [] field = "keywords" -> "editedKeywords"

\* C12: when a field regeneration succeeds, every item of its id keeps its
\* history up to the cursor and gets exactly one new snapshot after it, the
\* cursor on that new last snapshot, and an undo of the item right then
\* gives the regenerated field the value it had before.
RegenerationAppendsSnapshot ==
    [][\A r \in requests :
          GenerateFieldReturns(r) =>
              \A p \in 1..Len(imageFiles) :
                  imageFiles[p].id = r.id =>
                      LET f == imageFiles[p]
                          g == imageFiles'[p]
                      IN  /\ Len(g.history) = f.historyIndex + 2
                          /\ SubSeq(g.history, 1, f.historyIndex + 1)
                                = SubSeq(f.history, 1, f.historyIndex + 1)
                          /\ g.historyIndex = Len(g.history) - 1
                          /\ g.history[Len(g.history)][KeyOf(r.field)]
                                = GeneratedUpdate(r)[KeyOf(r.field)]
                          /\ UndoItem(g)[KeyOf(r.field)] = f[KeyOf(r.field)]]_vars

\* C13: toggling the editorial flag of an item on and then off, with no
\* other step in between, returns the description to its value before the
\* two toggles, whatever the description and the stored city, region and
\* date were: switching the flag on leaves the description as it is, and
\* switching it off right after leaves it as it is too.
ToggleOnOffKeepsDescription ==
    [][\A p \in 1..Len(imageFiles) :
          HandleToggleEditorial(p) =>
              LET f == imageFiles[p]
                  g == imageFiles'[p]
              IN  /\ ~f.editedIsEditorial => g.editedDescription = f.editedDescription
                  /\ ( /\ f.editedIsEditorial
                       /\ lastOp.op = "handleToggleEditorial"
                       /\ lastOp.pos = p )
                     => g.editedDescription = f.editedDescription]_vars

\* the editorial prefix of the city, region and date an item stores
PrefixOf(f) ==
    createEditorialPrefix(f.editedEditorialCity, f.editedEditorialRegion,
                          f.editedEditorialDate)

\* C14: switching the editorial flag off strips the prefix without loss
\* exactly when the description starts with the prefix of the stored city,
\* region and date: a description that does not start with it is left as it
\* is, and a description an editorial input has just put a prefix on comes
\* back, when the flag is switched off, as the description it was before
\* that prefix was put on.
ToggleOffStripsLosslessly ==
    [][\A p \in 1..Len(imageFiles) :
          LET f == imageFiles[p]
              g == imageFiles'[p]
          IN  /\ (HandleToggleEditorial(p) /\ f.editedIsEditorial) =>
                     ( ~(PrefixOf(f) # <<>> /\ StartsWith(f.editedDescription, PrefixOf(f)))
                       => g.editedDescription = f.editedDescription )
              /\ \A u \in EditorialEdits :
                     ( /\ HandleEditorialChange(p, u)
                       /\ PrefixOf(f) = <<>>
                       /\ PrefixOf(g) # <<>> ) =>
                         RecordEditItem(g, ToggleEditorialUpdates(g, FALSE)).editedDescription
                             = f.editedDescription]_vars

\* the editorial input an update comes from
SubFieldOf(u) == CHOOSE k \in DOMAIN u : TRUE

\* C15: a change of the city, region or date input of an item produces
\* exactly one new history entry: the history is the entries up to the
\* cursor followed by one snapshot that holds both the changed input and
\* the re-derived description, the cursor is on it, and one undo brings
\* the input and the description back together to what they were.
EditorialChangeIsOneEntry ==
    [][\A p \in 1..Len(imageFiles), u \in EditorialEdits :
          HandleEditorialChange(p, u) =>
              LET f == imageFiles[p]
                  g == imageFiles'[p]
                  k == SubFieldOf(u)
                  last == g.history[Len(g.history)]
              IN  /\ Len(g.history) = f.historyIndex + 2
                  /\ SubSeq(g.history, 1, f.historyIndex + 1)
                        = SubSeq(f.history, 1, f.historyIndex + 1)
                  /\ g.historyIndex = Len(g.history) - 1
                  /\ {k, "editedDescription"} \subseteq DOMAIN last
                  /\ last[k] = u[k] /\ g[k] = u[k]
                  /\ last.editedDescription = g.editedDescription
                  /\ UndoItem(g)[k] = f[k]
                  /\ UndoItem(g).editedDescription = f.editedDescription]_vars

\* C16: the auto-save timer is reset, not stacked, on every registry
\* change: at most one auto-save timeout is pending, a pending timeout is
\* the one set for the registry as it is now, so that a write to the local
\* store happens only for a registry that has not changed since the timeout
\* was set, and no timeout is pending once the component is torn down.
AutoSaveIsDebounced ==
    /\ Len(timers) <= 1
    /\ \A k \in 1..Len(timers) : timers[k] = imageFiles
    /\ lastOp.op = "autoSave" => lastOp.saved[1] = imageFiles
    /\ ~mounted => timers = <<>>

\* a successful item whose upload, processing and success each set the
\* timeout again with no write in between, and the one timeout pending
AutoSaveWitness ==
    /\ mounted
    /\ Len(timers) = 1
    /\ Len(imageFiles) > 0
    /\ imageFiles[1].state = SUCCESS
    /\ store = <<>>

\* the store holds exactly one record per item of reg, keyed by its id, with
\* the fields, history, cursor and status of the item; nothing for an empty
\* reg
Mirrors(st, reg) ==
    IF reg = <<>> THEN st = <<>>
    ELSE /\ Len(st) = Len(reg)
         /\ \A p \in 1..Len(reg) : \E k \in 1..Len(st) : st[k] = Storable(reg[p])
         /\ \A k \in 1..Len(st) : \E p \in 1..Len(reg) : st[k].id = reg[p].id
         /\ \A j, k \in 1..Len(st) : st[j].id = st[k].id => j = k

\* C17: once the registry has stopped changing for the quiet period, the
\* write of the auto-save leaves the local store mirroring the registry: one
\* record per item, keyed by id, none of a removed item, with the editable
\* fields, history, cursor and status of the item, and no record at all for
\* an empty registry.
StoreMirrorsRegistry ==
    lastOp.op = "autoSave" => Mirrors(store, imageFiles)

\* C18: importing the archive a session export produced yields one item per
\* exported item, each with restored = true and with the exported editable
\* fields, history and cursor; an item exported without a thumbnail gets the
\* placeholder preview, and an item exported with a thumbnail keeps it.
ImportRestoresExport ==
    ( /\ lastOp.op = "handleImportSession"
      /\ lastOp.saved[2] = archive.zip ) =>
        LET before == lastOp.saved[1]
            exported == archive.exported
            n == Len(before)
        IN  /\ lastOp.toast = "Imported items from session"
            /\ Len(imageFiles) = n + Len(exported)
            /\ \A k \in 1..Len(exported) :
                  LET e == exported[k]
                      g == imageFiles[n + k]
                  IN  /\ g.isRestored
                      /\ \A key \in EditableFields : g[key] = e[key]
                      /\ g.history = e.history
                      /\ g.historyIndex = e.historyIndex
                      /\ IF e.thumbnailData = <<>>
                         THEN g.previewUrl = PlaceholderUrl /\ g.thumbnailData = <<>>
                         ELSE g.previewUrl = ThumbnailUrl
                              /\ g.thumbnailData = e.thumbnailData

\* an archive of several items has just been imported: its first item was
\* exported with a thumbnail and with a snapshot after its cursor, its last
\* item without a thumbnail
ImportWitness ==
    /\ lastOp.op = "handleImportSession"
    /\ lastOp.saved[2] = archive.zip
    /\ Len(archive.exported) = ArchiveFiles
    /\ archive.exported[1].thumbnailData # <<>>
    /\ archive.exported[1].historyIndex < Len(archive.exported[1].history) - 1
    /\ archive.exported[ArchiveFiles].thumbnailData = <<>>
    /\ imageFiles[Len(imageFiles)].previewUrl = PlaceholderUrl
    /\ imageFiles[Len(imageFiles)].isRestored

\* the file does not import: it is unreadable, has no manifest, has a
\* manifest whose root is no list, or has an entry that cannot be
\* reconstructed
Unimportable(zip) ==
    \/ ~zip.readable
    \/ ~zip.hasSession
    \/ ~zip.isArray
    \/ \E k \in 1..Len(zip.entries) : ~zip.entries[k].valid

\* C19: an import of an archive that is unreadable, has no manifest, has a
\* manifest root that is no list or has an entry that fails to reconstruct
\* aborts as a whole with the one error toast: the registry after it is the
\* registry before it, with no item of the archive committed.
FailedImportLeavesRegistry ==
    ( /\ lastOp.op = "handleImportSession"
      /\ Unimportable(lastOp.saved[2]) ) =>
        /\ lastOp.toast = "Failed to import session. Invalid ZIP file."
        /\ imageFiles = lastOp.saved[1]

\* an archive of several entries whose first entry is sound and whose last
\* is not has just been handed to the import while the registry held items
FailedImportWitness ==
    /\ lastOp.op = "handleImportSession"
    /\ Unimportable(lastOp.saved[2])
    /\ Len(lastOp.saved[2].entries) = ArchiveFiles
    /\ lastOp.saved[2].entries[1].valid
    /\ lastOp.saved[2].readable
    /\ Len(lastOp.saved[1]) > 0
    /\ imageFiles = lastOp.saved[1]

\* a string field of a CSV row: the text in double quotes, each double quote
\* within it doubled
CsvField(text) == InQuotes(ReplaceQuotes(text))

\* C20: the CSV export has one row per successful item and none for any
\* other item, the columns Filename, Description, Keywords, Categories,
\* Editorial, Mature content, illustration in this order, and every string
\* field of a row, the filename and the category included, in double quotes
\* with each double quote within it doubled.
CsvRowsAreQuoted ==
    lastOp.op = "handleExportCsv" =>
        LET csv == lastOp.saved[1]
            success == SuccessfulItems(imageFiles)
        IN  /\ csv.headers = <<"Filename", "Description", "Keywords", "Categories",
                               "Editorial", "Mature content", "illustration">>
            /\ Len(csv.rows) = Len(success)
            /\ \A k \in 1..Len(success) :
                  LET f == success[k]
                  IN  csv.rows[k] =
                          Join(<<CsvField(f.file.name),
                                 CsvField(f.editedDescription),
                                 CsvField(KeywordsText(f.editedKeywords)),
                                 CsvField(Tok(EnglishCategory(f.editedCategory))),
                                 CsvField(IF f.editedIsEditorial THEN <<"Yes">> ELSE <<"No">>),
                                 CsvField(<<"No">>),
                                 CsvField(<<"No">>)>>, <<",">>)

\* C21: a read of the token ledger returns the saved number when it was
\* saved on the date of the read, and 0, not the saved number, when the
\* date of the read differs from the date it was saved on.
LedgerReadIsOfToday ==
    (lastOp.op = "init" /\ lastOp.saved # <<>>) =>
        LET stored == lastOp.saved[1]
        IN  IF stored = NoUsage THEN totalTokensUsed = 0
            ELSE IF stored[1].date = IsoDate(clock)
                 THEN totalTokensUsed = stored[1].tokens
                 ELSE totalTokensUsed = 0

\* the page was opened on a later date than the one a usage above 0 was
\* saved on, and the ledger has just been read
LedgerWitness ==
    /\ lastOp.op = "init"
    /\ lastOp.saved # <<>>
    /\ lastOp.saved[1] # NoUsage
    /\ lastOp.saved[1][1].tokens > 0
    /\ lastOp.saved[1][1].date < IsoDate(clock)
    /\ totalTokensUsed = 0

\* C22: a collaborator call that fails with a quota-exceeded error is not
\* retried: the attempt that failed so is the last one, a call whose first
\* attempt failed so has made exactly one attempt and waited for nothing,
\* and the caller is thrown QUOTA_EXCEEDED.
QuotaErrorIsNotRetried ==
    lastOp.op = "withApiRetry" =>
        LET outcomes == lastOp.saved[1]
            call == lastOp.saved[2]
        IN  \A k \in 1..call.attempts :
                (outcomes[k] # Returned /\ handleGeminiError(outcomes[k]) = "QUOTA_EXCEEDED") =>
                    /\ call.attempts = k
                    /\ ~call.ok
                    /\ call.message = "QUOTA_EXCEEDED"
                    /\ Len(call.waits) = k - 1

\* a call whose first attempt was answered with status 429, and whose second
\* attempt would have returned
QuotaErrorWitness ==
    /\ lastOp.op = "withApiRetry"
    /\ lastOp.saved[1][1].status = 429
    /\ lastOp.saved[1][2] = Returned
    /\ lastOp.saved[2].attempts = 1
    /\ lastOp.saved[2].message = "QUOTA_EXCEEDED"
    /\ lastOp.toast = "quota exceeded message"

\* C23: a collaborator call whose attempt fails with a transient network
\* failure or a rate-limit failure is retried, a second attempt being made
\* after a pause and no third one, while a first attempt that fails in any
\* other way ends the call.
TransientFailureIsRetried ==
    lastOp.op = "withApiRetry" =>
        LET outcomes == lastOp.saved[1]
            call == lastOp.saved[2]
        IN  /\ call.attempts <= 2
            /\ outcomes[1].cause \in {"network", "rate-limit"} =>
                  call.attempts = 2 /\ Len(call.waits) = 1
            /\ outcomes[1].cause \notin {"network", "rate-limit", "none"} =>
                  call.attempts = 1 /\ call.waits = <<>>

\* the kinds an error of a collaborator call has for the core
ErrorKindsOfCore ==
    {"API_KEY_MISSING", "RAW_NOT_SUPPORTED", "FORMAT_NOT_SUPPORTED",
     "VIDEO_LOAD_ERROR", "VIDEO_TIMEOUT", "QUOTA_EXCEEDED", "RATE_LIMIT_EXCEEDED",
     "CONTENT_SAFETY_VIOLATION", "UNKNOWN_ERROR"}

\* C24: the error of a failed collaborator call reaches the core as one of
\* the kinds missing credentials, unsupported raw format, unsupported
\* browser format, video-decode failure, video-decode timeout, quota
\* exceeded, rate limited, content-safety rejection and unknown, and
\* getFriendlyErrorMessage maps each kind to a fixed message of its own.
ErrorKindsAreClosed ==
    ( lastOp.op = "withApiRetry" /\ ~lastOp.saved[2].ok ) =>
        LET kind == lastOp.saved[2].message
        IN  /\ kind \in ErrorKindsOfCore
            /\ lastOp.toast = getFriendlyErrorMessage(kind)
            /\ lastOp.toast # kind
            /\ \A other \in ErrorKindsOfCore \ {kind} :
                  getFriendlyErrorMessage(other) # lastOp.toast

\* the live editable fields of an item
LiveFields(f) == [k \in EditableFields |-> f[k]]

\* a snapshot read field by field, a field the snapshot does not hold
\* reading as the value a created item has for it
FieldsOfSnapshot(snap) == Merge(LiveFields(NewImageFile(0)), snap)

\* C25: a step that records an edit for an item leaves the snapshots up to
\* the old cursor as they were, followed by one snapshot that is the old
\* snapshot at the cursor with the update merged onto it; the cursor is on
\* that last snapshot, the history has old cursor + 2 snapshots, and the
\* item's live editable fields are those of the merged snapshot.
RecordEditAppliesMergedSnapshot ==
    [][ ( /\ lastOp'.op \in RecordingOps
          /\ lastOp'.pos \in 1..Len(imageFiles)
          /\ Len(imageFiles') = Len(imageFiles) ) =>
        LET old == imageFiles[lastOp'.pos]
            f == imageFiles'[lastOp'.pos]
            base == LatestState(old)
            snap == f.history[Len(f.history)]
        IN  /\ Len(f.history) = old.historyIndex + 2
            /\ f.historyIndex = Len(f.history) - 1
            /\ SubSeq(f.history, 1, old.historyIndex + 1)
                  = SubSeq(old.history, 1, old.historyIndex + 1)
            /\ \A k \in DOMAIN base :
                  k \in DOMAIN snap /\ (snap[k] = base[k] \/ snap[k] # old[k])
            /\ LiveFields(f) = FieldsOfSnapshot(snap)
      ]_vars

\* the registry but for the item at position p
OtherItems(reg, p) == [q \in (1..Len(reg)) \ {p} |-> reg[q]]

\* C26: an undo requested for an item whose cursor is at most 0, and a redo
\* requested for an item whose cursor is on its last snapshot, leave the
\* registry as it is; any other undo or redo moves the item's cursor by one,
\* writes the fields of the snapshot under the cursor onto the item, keeps
\* the item's history and leaves every other item of the registry as it was.
UndoRedoChangesOneItem ==
    [][ /\ \A p \in 1..Len(imageFiles) :
              /\ imageFiles[p].historyIndex <= 0 =>
                    handleUndo(imageFiles, imageFiles[p].id) = imageFiles
              /\ imageFiles[p].historyIndex >= Len(imageFiles[p].history) - 1 =>
                    handleRedo(imageFiles, imageFiles[p].id) = imageFiles
        /\ lastOp'.op \in {"handleUndo", "handleRedo"} =>
              LET p == lastOp'.pos
                  old == imageFiles[p]
                  f == imageFiles'[p]
                  step == IF lastOp'.op = "handleUndo" THEN -1 ELSE 1
              IN  /\ Len(imageFiles') = Len(imageFiles)
                  /\ f.historyIndex = old.historyIndex + step
                  /\ \A k \in DOMAIN old.history[f.historyIndex + 1] :
                        f[k] = old.history[f.historyIndex + 1][k]
                  /\ f.history = old.history
                  /\ OtherItems(imageFiles', p) = OtherItems(imageFiles, p)
      ]_vars

\* the changes of status the lifecycle of an item allows
LifecycleSteps ==
    {<<IDLE, PROCESSING>>, <<PROCESSING, SUCCESS>>, <<PROCESSING, ERROR>>,
     <<ERROR, PROCESSING>>}

\* C27: the status of an item changes only along idle -> processing ->
\* (success | error) and error -> processing, the last only when a batch
\* started by Retry claims the item; the success write of a batch finds the
\* item processing and leaves it with a history of exactly one snapshot,
\* the generated fields, under cursor 0 and as its live fields; the error
\* write finds the item processing, records a message and keeps the item's
\* history and cursor.
StatusFollowsLifecycle ==
    [][ /\ \A p \in 1..Len(imageFiles) :
              ( p <= Len(imageFiles') /\ imageFiles'[p].id = imageFiles[p].id ) =>
                  LET old == imageFiles[p]
                      f == imageFiles'[p]
                  IN  /\ f.state # old.state => <<old.state, f.state>> \in LifecycleSteps
                      /\ ( old.state = ERROR /\ f.state = PROCESSING ) =>
                            \E b \in 1..Len(batches) :
                                /\ batches[b].pc = "sleep" /\ batches'[b].pc = "call"
                                /\ batches[b].files[batches[b].i].id = old.id
                                /\ batches[b].files[batches[b].i].state = ERROR
        /\ \A b \in 1..Len(batches) :
              ( batches[b].pc = "call" /\ batches'[b] # batches[b]
                /\ Len(imageFiles') = Len(imageFiles) ) =>
                  \A p \in 1..Len(imageFiles) :
                      imageFiles[p].id = batches[b].files[batches[b].i].id =>
                          LET old == imageFiles[p]
                              f == imageFiles'[p]
                          IN  /\ old.state = PROCESSING
                              /\ batches'[b].outcome[batches[b].i] = "success" =>
                                    /\ f.state = SUCCESS
                                    /\ Len(f.history) = 1 /\ f.historyIndex = 0
                                    /\ f.history[1] \in {StateOfMetadata(m) : m \in MetadataResults}
                                    /\ LiveFields(f) = f.history[1]
                              /\ batches'[b].outcome[batches[b].i] = "error" =>
                                    /\ f.state = ERROR
                                    /\ f.error # ""
                                    /\ f.history = old.history
                                    /\ f.historyIndex = old.historyIndex
      ]_vars

\* the steps a user's edit of a card ends in
EditingOps == RecordingOps \cup {"handleUndo", "handleRedo"}

\* C28: no field edit, editorial update, undo or redo changes the editable
\* fields, the history or the cursor of an item whose status is processing,
\* and the success write of the batch processor finds no edit of the user
\* on the item it overwrites.
NoEditWhileProcessing ==
    [][ /\ ( lastOp'.op \in EditingOps /\ lastOp'.pos \in 1..Len(imageFiles)
             /\ Len(imageFiles') = Len(imageFiles) ) =>
              ( imageFiles[lastOp'.pos].state = PROCESSING =>
                    Edited(imageFiles'[lastOp'.pos]) = Edited(imageFiles[lastOp'.pos]) )
        /\ \A b \in 1..Len(batches) :
              ( /\ batches[b].pc = "call"
                /\ batches'[b].outcome[batches[b].i] = "success"
                /\ Len(imageFiles') = Len(imageFiles) ) =>
                  \A p \in 1..Len(imageFiles) :
                      imageFiles[p].id = batches[b].files[batches[b].i].id =>
                          Edited(imageFiles[p]) = Edited(NewImageFile(imageFiles[p].id))
      ]_vars

\* the item of the registry that the batch B is about to look at, 0 when it
\* was removed
ItemReached(B) == Find(imageFiles, B.files[B.i].id)

\* C29: when the loop of a batch, not cancelled, reaches an item that is
\* already successful or is restored, it starts no collaborator call,
\* charges no tokens, raises no notification, leaves the registry as it is
\* and goes on with the next item of the batch.
BatchSkipsFinishedItems ==
    [][ \A b \in 1..Len(batches) :
          ( /\ batches[b].pc = "sleep" /\ batches'[b] # batches[b]
            /\ ~abortProcessingRef
            /\ ItemReached(batches[b]) > 0
            /\ \/ imageFiles[ItemReached(batches[b])].state = SUCCESS
               \/ imageFiles[ItemReached(batches[b])].isRestored ) =>
              /\ batches'[b].calls = batches[b].calls
              /\ totalTokensUsed' = totalTokensUsed
              /\ lastOp'.toast = ""
              /\ imageFiles' = imageFiles
              /\ batches'[b].outcome[batches[b].i] = "skipped"
              /\ IF batches[b].i < Len(batches[b].files)
                 THEN batches'[b].i = batches[b].i + 1 /\ batches'[b].pc = "sleep"
                 ELSE batches'[b].pc = "done"
      ]_vars

\* C30: when the regenerated keywords of an item are recorded while the
\* item's editorial flag is on, the recorded keywords hold "editorial",
\* also when the flag was turned on after the regeneration was requested.
RegeneratedKeywordsKeepEditorial ==
    [][ \A r \in requests :
          ( /\ r.field = "keywords" /\ r \notin requests'
            /\ lastOp'.op = "generateFieldReturns"
            /\ Len(imageFiles') = Len(imageFiles) ) =>
              \A p \in 1..Len(imageFiles) :
                  ( imageFiles[p].id = r.id /\ imageFiles[p].editedIsEditorial ) =>
                      /\ imageFiles'[p].editedIsEditorial
                      /\ HasEditorial(imageFiles'[p].editedKeywords)
      ]_vars

\* the keywords that are not 'editorial' in lower case
RECURSIVE WithoutEditorial(_)
WithoutEditorial(kws) ==
    IF kws = <<>> THEN <<>>
    ELSE (IF Lower(Head(kws)) = "editorial" THEN <<>> ELSE <<Head(kws)>>)
         \o WithoutEditorial(Tail(kws))

\* C31: switching the editorial flag off clears city, region, date and fact
\* and leaves the keywords without any token that is "editorial" whatever
\* its case; switching it on puts "editorial" in front of the keywords when
\* no such token is there and leaves the keywords as they are when one is;
\* either way the item gets exactly one new history entry.
ToggleSetsEditorialKeyword ==
    [][\A p \in 1..Len(imageFiles) :
          HandleToggleEditorial(p) =>
              LET f == imageFiles[p]
                  g == imageFiles'[p]
              IN  /\ f.editedIsEditorial =>
                        /\ ~g.editedIsEditorial
                        /\ g.editedEditorialCity = "" /\ g.editedEditorialRegion = ""
                        /\ g.editedEditorialDate = "" /\ g.editedEditorialFact = ""
                        /\ ~HasEditorial(g.editedKeywords)
                        /\ g.editedKeywords = WithoutEditorial(f.editedKeywords)
                  /\ ~f.editedIsEditorial =>
                        /\ g.editedIsEditorial
                        /\ g.editedKeywords =
                              IF HasEditorial(f.editedKeywords) THEN f.editedKeywords
                              ELSE <<"editorial">> \o f.editedKeywords
                  /\ Len(g.history) = f.historyIndex + 2
                  /\ g.historyIndex = f.historyIndex + 1]_vars

\* C32: a regeneration is started for a field of an item only while no
\* regeneration of that field of that item is in flight, and the end of a
\* regeneration changes no busy flag but the one of its own field on the
\* items of its own id.
OneRegenerationPerField ==
    [][ /\ \A p \in 1..Len(imageFiles), field \in RegenFields :
              ( HandleGenerateField(p, field) /\ lastOp'.toast = "" ) =>
                  ~\E r \in requests : r.id = imageFiles[p].id /\ r.field = field
        /\ \A r \in requests :
              ( r.field \in RegenFields /\ r \notin requests'
                /\ Len(imageFiles') = Len(imageFiles) ) =>
                  \A p \in 1..Len(imageFiles), flag \in BusyFlags :
                      imageFiles'[p][flag] # imageFiles[p][flag] =>
                          imageFiles[p].id = r.id /\ flag = FlagOf(r.field)
      ]_vars

\* C33: every item with a non-empty history has, in each of its editable
\* fields, the value the snapshot under its cursor has for that field.
LiveFieldsAreSnapshotAtCursor ==
    \A p \in 1..Len(imageFiles) :
        LET f == imageFiles[p]
        IN  Len(f.history) > 0 =>
                \A k \in EditableFields : f[k] = FieldsOfSnapshot(LatestState(f))[k]

\* C34: the ids of the items of the registry are pairwise distinct after
\* any sequence of uploads, session imports and clears, so that an id names
\* one item.
IdsAreDistinct ==
    \A p, q \in 1..Len(imageFiles) : p # q => imageFiles[p].id # imageFiles[q].id

\* the positions of the registry whose item is in state processing
ProcessingItems == {p \in 1..Len(imageFiles) : imageFiles[p].state = PROCESSING}

\* C35: at most one item of the registry is in state processing, whatever
\* batches are running, and isProcessing is true whenever one is.
OneItemProcessing ==
    /\ Cardinality(ProcessingItems) <= 1
    /\ ProcessingItems # {} => isProcessing

\* an item shown as waiting for a call: in state processing, or with a busy
\* flag set
Transient(f) == f.state = PROCESSING \/ \E flag \in BusyFlags : f[flag]

\* C36: no item of a session resumed from the local store, and no item a
\* session import has appended, is in state processing or has a busy flag
\* set.
NoTransientItemRestored ==
    /\ lastOp.op = "init" => \A p \in 1..Len(imageFiles) : ~Transient(imageFiles[p])
    /\ ( lastOp.op = "handleImportSession" /\ lastOp.saved # <<>> ) =>
          \A p \in (Len(lastOp.saved[1]) + 1)..Len(imageFiles) : ~Transient(imageFiles[p])

\* C37: the local store is not written while the initial load is under way,
\* and a session it holds is emptied by Clear All only: not by the auto-save
\* that follows a failed load of that session.
AutoSaveKeepsUnloadedSession ==
    [][ /\ isInitialLoad => store' = store
        /\ ( store # <<>> /\ store' = <<>> ) => lastOp'.op = "handleClear"
      ]_vars

\* C38: the first usage saved under a date holds the tokens of that charge
\* only: the record of a new day does not start from the total of the day
\* before.
LedgerStartsEachDayAtZero ==
    [][ ( /\ tokenUsage' # tokenUsage
          /\ tokenUsage' # NoUsage
          /\ tokenUsage = NoUsage \/ tokenUsage[1].date # tokenUsage'[1].date ) =>
              tokenUsage'[1].tokens = totalTokensUsed' - totalTokensUsed
      ]_vars

\* C39: the registry gets an item only by an upload, a session import or
\* the resume of the stored session: the end of a generation, regeneration,
\* analysis or thumbnail call adds none, so an emptied registry stays empty
\* until the next upload or import.
ClearedRegistryStaysEmpty ==
    [][ Len(imageFiles') > Len(imageFiles) =>
            \/ nextId' > nextId
            \/ lastOp'.op \in {"handleImportSession", "init"}
      ]_vars

\* an emptied registry after the generation call that was in flight when it
\* was emptied has returned
ClearedRegistryWitness ==
    /\ imageFiles = <<>>
    /\ lastOp.op # "handleClear"
    /\ \E b \in 1..Len(batches) :
          batches[b].clearedAt > 0 /\ batches[b].outcome[1] = "success"

\* the row of the CSV export for item f with the text category in its
\* Categories column
RowWithCategory(f, category) ==
    Join(<<CsvField(f.file.name),
           CsvField(f.editedDescription),
           CsvField(KeywordsText(f.editedKeywords)),
           CsvField(Tok(category)),
           CsvField(IF f.editedIsEditorial THEN <<"Yes">> ELSE <<"No">>),
           CsvField(<<"No">>),
           CsvField(<<"No">>)>>, <<",">>)

\* C40: the category of an exported item that is one of STOCK_CATEGORIES
\* has an entry in CATEGORY_TRANSLATIONS, and the row of the CSV export
\* holds the value of that entry, not the category as the list has it.
CategoriesAreTranslated ==
    lastOp.op = "handleExportCsv" =>
        LET csv == lastOp.saved[1]
            success == SuccessfulItems(imageFiles)
        IN  \A k \in 1..Len(success) :
                LET f == success[k]
                IN  f.editedCategory \in SeqToSet(STOCK_CATEGORIES) =>
                        /\ f.editedCategory \in TranslatedCategories
                        /\ csv.rows[k] # RowWithCategory(f, f.editedCategory)

====
